---- MODULE Spec2Model ----
(***************************************************************************)
(* LocalHunt backend: one-time codes (otp_routes.py,                       *)
(* password_reset_routes.py), reset tokens (password_reset_routes.py),     *)
(* signup's verified-phone check (signup_routes.py) and the SMS device     *)
(* pool (sms_sender.py).                                                   *)
(*                                                                         *)
(* Every Flask handler is a process that runs from its first line to its   *)
(* return.  One step of a process is one call on something shared: a       *)
(* Supabase query, the HTTP call to the SMS API, a read of the wall clock. *)
(* Purely local computation is folded into the step that precedes it.      *)
(* Time is in seconds.                                                     *)
(***************************************************************************)
EXTENDS Integers, Sequences, FiniteSets, TLC

(***************************************************************************)
(* Program constants.                                                      *)
(***************************************************************************)
OTP_EXPIRE_MINUTES == 2
RESET_OTP_EXPIRE_MINUTES == 3
TOKEN_EXPIRE_MINUTES == 15
REFRESH_TTL == 30
HTTPSMS_DEVICE_MAX_PER_DAY == 80

(***************************************************************************)
(* Bounds of the model.                                                    *)
(***************************************************************************)
NProcs == 2
MaxReqs == 2
MaxSmsReqs == 2
MaxTicks == 2
TickSeconds == 120
LongTickSeconds == 480
MaxFaults == 1

Procs == 1 .. NProcs
Phones == {"+911", "+912"}
Codes == {1234, 5678}
HTTPSMS_DEVICES == {"devA", "devB", "devC"}
\* try_limit: int = None; <<>> is None, <<k>> the integer k
TryLimits == {<<>>, <<-1>>, <<0>>, <<1>>, <<2>>}
Passwords == {"pw1", "pw2"}

IssueOps == {"send_otp", "request_reset"}
VerifyOps == {"verify_otp", "verify_reset_otp"}

VARIABLES
    now,        \* the wall clock, in seconds
    nreq,       \* requests started so far: the sub-second order of clock reads
    faults,     \* store failures the environment may still inject
    otps,       \* table otps: a sequence of rows, a row's id is its index
    tokens,     \* table password_reset_tokens, id = index
    accounts,   \* tables users and vendors: a sequence of account rows
    smsdb,      \* table sms_devices: device phone -> row
    DEVICES,    \* sms_sender.DEVICES, the in-process cache
    LAST_REFRESH, \* sms_sender.LAST_REFRESH
    otp_store,  \* profile_routes.otp_store, the in-process code records
    pc,         \* where each request is in its handler
    loc,        \* each request's local variables
    resp,       \* the response returned last, by any request
    overlap     \* history: the phones, and the tokens, for which two requests
                \* ever ran at the same time

vars == <<now, nreq, faults, otps, tokens, accounts, smsdb, DEVICES,
          LAST_REFRESH, otp_store, pc, loc, resp, overlap>>

(***************************************************************************)
(* Rows and locals.                                                        *)
(***************************************************************************)
NoRow == [id |-> 0, phone |-> "", otp_hash |-> <<0, "">>, status |-> "",
          attempts |-> 0, created_at |-> 0, created_sub |-> 0,
          expires_at |-> 0, sent_via |-> "", verified_at |-> -1]

NoToken == [id |-> 0, token |-> 0, account_type |-> "", account_id |-> 0,
            expires_at |-> 0, used |-> FALSE, created_at |-> 0]

\* the error an attempt left: what failed, and (for the record) on which device
NoError == [kind |-> "", device |-> ""]

NoSend == [success |-> FALSE, device |-> "", error |-> "", last_error |-> NoError]

NoResp == [op |-> "", phone |-> "", http |-> 0, result |-> "", info |-> "",
           token |-> 0, row |-> 0, send |-> NoSend]

IdleLoc == [op |-> "", phone |-> "", otp |-> 0, t0 |-> 0, sub |-> 0,
            row |-> NoRow, send |-> NoSend, ret |-> "",
            cands |-> <<>>, idx |-> 0, cur |-> 0, last_error |-> NoError,
            try_limit |-> <<>>,
            token |-> 0, new_password |-> "", trow |-> NoToken,
            kind |-> "", acct |-> 0, ins |-> 0]

OTP_HASH_SALT == "local-default-salt"

\* otp_routes._hash_otp / password_reset_routes._hash_otp: sha256(otp + salt),
\* taken as collision free: two hashes agree exactly when code and salt do.
HashOtp(otp) == <<otp, OTP_HASH_SALT>>

(***************************************************************************)
(* The store: table otps.                                                  *)
(***************************************************************************)
PhoneRows(tbl, ph) == {i \in DOMAIN tbl : tbl[i].phone = ph}

\* order("created_at", desc=True): timestamps carry microseconds, so two
\* clock reads never tie; created_sub is the order of the clock reads.
Newer(a, b) ==
    \/ a.created_at > b.created_at
    \/ a.created_at = b.created_at /\ a.created_sub > b.created_sub

\* a lookup that orders the wrong way round
LatestId_Oldest(tbl, ph) ==
    IF PhoneRows(tbl, ph) = {} THEN 0
    ELSE CHOOSE i \in PhoneRows(tbl, ph) : \A j \in PhoneRows(tbl, ph) : i <= j

\* .eq("phone", ph).order("created_at", desc=True).limit(1): 0 when no row
LatestId(tbl, ph) ==
    IF PhoneRows(tbl, ph) = {} THEN 0
    ELSE CHOOSE i \in PhoneRows(tbl, ph) :
            \A j \in PhoneRows(tbl, ph) : j = i \/ Newer(tbl[i], tbl[j])

\* a lookup that forgets the status filter
VerifiedRows_AnyStatus(tbl, ph) == PhoneRows(tbl, ph)

\* signup_routes._latest_verified_otp: the filter on status comes first
VerifiedRows(tbl, ph) == {i \in PhoneRows(tbl, ph) : tbl[i].status = "VERIFIED"}

LatestVerifiedId(tbl, ph) ==
    IF VerifiedRows(tbl, ph) = {} THEN 0
    ELSE CHOOSE i \in VerifiedRows(tbl, ph) :
            \A j \in VerifiedRows(tbl, ph) : j = i \/ Newer(tbl[i], tbl[j])

(***************************************************************************)
(* Finishing a request: the handler returns, its locals die.               *)
(***************************************************************************)
Finish(p, r) ==
    /\ pc' = [pc EXCEPT ![p] = "done"]
    /\ loc' = [loc EXCEPT ![p] = IdleLoc]
    /\ resp' = r

Reply(p, http, result, info) ==
    [NoResp EXCEPT !.op = loc[p].op, !.phone = loc[p].phone, !.http = http,
                   !.result = result, !.info = info,
                   !.row = IF loc[p].ins # 0 THEN loc[p].ins ELSE loc[p].row.id]

Idle(p) == pc[p] \in {"idle", "done"}

\* A store call may raise while the environment still has failures to inject.
StoreOutcomes == IF faults > 0 THEN {TRUE, FALSE} ELSE {TRUE}

Spend(ok) == faults' = IF ok THEN faults ELSE faults - 1

\* A request for phone ph starts: note whether another one for ph is running.
Running(ph) == {q \in Procs : ~Idle(q) /\ loc[q].phone = ph}

NoteStart(p, ph) ==
    overlap' = IF Running(ph) \ {p} # {}
               THEN [overlap EXCEPT !.phone = @ \cup {ph}] ELSE overlap

Consuming(tk) == {q \in Procs : ~Idle(q) /\ loc[q].op = "complete" /\ loc[q].token = tk}

NoteConsume(p, tk) ==
    overlap' = IF Consuming(tk) \ {p} # {}
               THEN [overlap EXCEPT !.token = @ \cup {tk}] ELSE overlap

(***************************************************************************)
(* sms_sender.py: the device pool.                                         *)
(***************************************************************************)
NoDevices == [d \in {} |-> 0]

EnvDevice(d) ==
    [phone |-> d, sent_today |-> 0,
     daily_quota |-> HTTPSMS_DEVICE_MAX_PER_DAY, status |-> "active"]

CacheRow(r) ==
    [phone |-> r.phone,
     sent_today |-> r.sent_today,
     daily_quota |-> IF r.daily_quota = 0 THEN HTTPSMS_DEVICE_MAX_PER_DAY
                     ELSE r.daily_quota,
     status |-> IF r.status = "" THEN "active" ELSE r.status]

\* _refresh_devices_from_db: the cache it leaves, <<DEVICES, LAST_REFRESH>>
RefreshDevicesFromDb(db, ok, t, last) ==
    IF ~ok THEN <<NoDevices, last>>
    ELSE IF DOMAIN db = {}
         THEN <<[d \in HTTPSMS_DEVICES |-> EnvDevice(d)], t>>
         ELSE <<[d \in DOMAIN db |-> CacheRow(db[d])], t>>

\* a staleness test that looks at the age only
CacheStale_AgeOnly(cache, last, t) == (t - last) > REFRESH_TTL

\* _get_candidates line 123
CacheStale(cache, last, t) == DOMAIN cache = {} \/ (t - last) > REFRESH_TTL

\* a filter that forgets the status
ActiveDevices_Any(cache) == DOMAIN cache

\* _get_candidates line 125
ActiveDevices(cache) == {d \in DOMAIN cache : cache[d].status = "active"}

\* a quota test every device passes
UnderQuota_Always(cache, d) == TRUE

UnderQuota(cache, d) == cache[d].sent_today < cache[d].daily_quota

Orders(S) == {s \in [1 .. Cardinality(S) -> S] : \A d \in S : \E i \in DOMAIN s : s[i] = d}

\* candidates.sort(key=sent_today): ascending; the order among equal keys is
\* the order the store returned the rows in, which nothing fixes.
SortedActive(cache) ==
    {s \in Orders(ActiveDevices(cache)) :
        \A i, j \in DOMAIN s :
            i < j => cache[s[i]].sent_today <= cache[s[j]].sent_today}

RECURSIVE Keep(_, _, _)
Keep(s, cache, i) ==
    IF i > Len(s) THEN <<>>
    ELSE (IF UnderQuota(cache, s[i]) THEN <<s[i]>> ELSE <<>>) \o Keep(s, cache, i + 1)

\* _get_candidates after the refresh: the lists it may return
GetCandidates(cache) ==
    {IF Keep(s, cache, 1) # <<>> THEN Keep(s, cache, 1) ELSE s : s \in SortedActive(cache)}

Min(a, b) == IF a < b THEN a ELSE b
Max(a, b) == IF a > b THEN a ELSE b

\* attempts_allowed and candidates[:attempts_allowed] (Python slice rules)
AttemptsAllowed(n, try_limit) ==
    IF try_limit # <<>> /\ try_limit[1] # 0 THEN Min(n, try_limit[1]) ELSE n

Slice(s, k) == SubSeq(s, 1, IF k >= 0 THEN Min(k, Len(s)) ELSE Max(Len(s) + k, 0))

\* what requests.post and the answer's body can be: the call raises; status
\* 200/201; another status with no "from" entry under "data"; another
\* status with data["from"] set; another status whose JSON body has a
\* "data" that is not an object (a message string, a list)
TransportOutcomes == {"exception", "ok", "rejected", "from_invalid", "data_not_object"}

SmsPcs == {"sms_cand", "sms_post", "sms_inc_read", "sms_inc_write",
           "sms_inc_refresh", "sms_off_write", "sms_off_refresh"}

\* send_sms_with_fallback returns res to its caller
SmsReturn(p, res) ==
    IF loc[p].ret = "done"
    THEN Finish(p, [Reply(p, 0, IF res.success THEN "Delivered" ELSE "Failed",
                          IF res.success THEN res.device ELSE res.error)
                    EXCEPT !.op = "sms", !.send = res])
    ELSE /\ pc' = [pc EXCEPT ![p] = loc[p].ret]
         /\ loc' = [loc EXCEPT ![p] = [@ EXCEPT !.send = res, !.cands = <<>>,
                        !.idx = 0, !.cur = 0, !.last_error = NoError, !.ret = ""]]
         /\ UNCHANGED resp

\* an exception leaves send_sms_with_fallback: a route handler that called
\* it outside any try ends with Flask's 500, its row still PENDING
SmsRaise(p) ==
    IF loc[p].ret = "done"
    THEN Finish(p, [Reply(p, 0, "Raised", "AttributeError") EXCEPT !.op = "sms"])
    ELSE Finish(p, Reply(p, 500, "Unhandled", "AttributeError"))

\* lines 155, 186: the error the attempt on the current candidate leaves
\* (the exception's text, or the status and body of the answer)
AttemptError(p, kind) == [kind |-> kind, device |-> loc[p].cands[loc[p].idx]]

\* the loop moves on after a failed attempt of the given kind
SmsNextCandidate(p, kind) ==
    IF loc[p].idx < Len(loc[p].cands)
    THEN /\ pc' = [pc EXCEPT ![p] = "sms_post"]
         /\ loc' = [loc EXCEPT ![p] = [@ EXCEPT !.idx = @ + 1,
                                                !.last_error = AttemptError(p, kind)]]
         /\ UNCHANGED resp
    ELSE SmsReturn(p, [success |-> FALSE, device |-> "", error |-> "all devices failed",
                       last_error |-> AttemptError(p, kind)])

\* lines 138-147: to_phone check, _get_candidates (with its refresh), slice
SmsCandidates(p) ==
    /\ pc[p] = "sms_cand"
    /\ IF loc[p].phone = ""
       THEN /\ SmsReturn(p, [NoSend EXCEPT !.error = "missing to_phone"])
            /\ UNCHANGED <<DEVICES, LAST_REFRESH, faults>>
       ELSE \E ok \in StoreOutcomes :
            LET stale == CacheStale(DEVICES, LAST_REFRESH, now)
                fresh == IF stale
                         THEN RefreshDevicesFromDb(smsdb, ok, now, LAST_REFRESH)
                         ELSE <<DEVICES, LAST_REFRESH>>
            IN /\ (~stale => ok)
               /\ Spend(ok)
               /\ DEVICES' = fresh[1]
               /\ LAST_REFRESH' = fresh[2]
               /\ \E c \in GetCandidates(fresh[1]) :
                    IF c = <<>>
                    THEN SmsReturn(p, [NoSend EXCEPT !.error = "no active devices available"])
                    ELSE LET lst == Slice(c, AttemptsAllowed(Len(c), loc[p].try_limit))
                         IN IF lst = <<>>
                            THEN SmsReturn(p, [NoSend EXCEPT !.error = "all devices failed"])
                            ELSE /\ pc' = [pc EXCEPT ![p] = "sms_post"]
                                 /\ loc' = [loc EXCEPT ![p] = [@ EXCEPT !.cands = lst, !.idx = 1]]
                                 /\ UNCHANGED resp
    /\ UNCHANGED <<otp_store, now, nreq, otps, tokens, accounts, smsdb, overlap>>

\* lines 150-157, 169, 174-186: requests.post from candidate idx
SmsPost(p) ==
    /\ pc[p] = "sms_post"
    /\ \E out \in TransportOutcomes :
        CASE out = "exception" -> SmsNextCandidate(p, "request-exception")
          [] out = "ok" ->
                /\ pc' = [pc EXCEPT ![p] = "sms_inc_read"]
                /\ UNCHANGED <<loc, resp>>
          [] out = "from_invalid" ->
                /\ pc' = [pc EXCEPT ![p] = "sms_off_write"]
                /\ UNCHANGED <<loc, resp>>
          [] out = "rejected" -> SmsNextCandidate(p, "rejected")
          [] out = "data_not_object" -> SmsRaise(p)
    /\ UNCHANGED <<otp_store, now, nreq, faults, otps, tokens, accounts, smsdb, DEVICES,
                   LAST_REFRESH, overlap>>

\* a success attributed to the head of the list
SmsDelivered_First(p) ==
    SmsReturn(p, [NoSend EXCEPT !.success = TRUE, !.device = loc[p].cands[1]])

\* line 173: success naming the device of the current attempt
SmsDelivered(p) ==
    SmsReturn(p, [NoSend EXCEPT !.success = TRUE, !.device = loc[p].cands[loc[p].idx]])

\* a read that takes the counter for one more than the store holds
SmsIncRead_OneMore(p) ==
    /\ pc[p] = "sms_inc_read"
    /\ \E ok \in StoreOutcomes :
        LET d == loc[p].cands[loc[p].idx]
        IN /\ Spend(ok)
           /\ IF ok /\ d \in DOMAIN smsdb
              THEN /\ pc' = [pc EXCEPT ![p] = "sms_inc_write"]
                   /\ loc' = [loc EXCEPT ![p] = [@ EXCEPT !.cur = smsdb[d].sent_today + 1]]
                   /\ UNCHANGED resp
              ELSE SmsDelivered(p)
    /\ UNCHANGED <<otp_store, now, nreq, otps, tokens, accounts, smsdb, DEVICES,
                   LAST_REFRESH, overlap>>

\* _increment_sent_count_in_db, line 93: read sent_today
SmsIncRead(p) ==
    /\ pc[p] = "sms_inc_read"
    /\ \E ok \in StoreOutcomes :
        LET d == loc[p].cands[loc[p].idx]
        IN /\ Spend(ok)
           /\ IF ok /\ d \in DOMAIN smsdb
              THEN /\ pc' = [pc EXCEPT ![p] = "sms_inc_write"]
                   /\ loc' = [loc EXCEPT ![p] = [@ EXCEPT !.cur = smsdb[d].sent_today]]
                   /\ UNCHANGED resp
              ELSE SmsDelivered(p)
    /\ UNCHANGED <<otp_store, now, nreq, otps, tokens, accounts, smsdb, DEVICES,
                   LAST_REFRESH, overlap>>

\* an increment that writes back the value it read
SmsIncWrite_NoAdd(p) ==
    /\ pc[p] = "sms_inc_write"
    /\ \E ok \in StoreOutcomes :
        LET d == loc[p].cands[loc[p].idx]
        IN /\ Spend(ok)
           /\ IF ok
              THEN /\ smsdb' = IF d \in DOMAIN smsdb
                               THEN [smsdb EXCEPT ![d].sent_today = loc[p].cur]
                               ELSE smsdb
                   /\ pc' = [pc EXCEPT ![p] = "sms_inc_refresh"]
                   /\ UNCHANGED <<loc, resp>>
              ELSE /\ SmsDelivered(p)
                   /\ UNCHANGED smsdb
    /\ UNCHANGED <<otp_store, now, nreq, otps, tokens, accounts, DEVICES, LAST_REFRESH, overlap>>

\* _increment_sent_count_in_db, lines 99-103: write current + 1
SmsIncWrite(p) ==
    /\ pc[p] = "sms_inc_write"
    /\ \E ok \in StoreOutcomes :
        LET d == loc[p].cands[loc[p].idx]
        IN /\ Spend(ok)
           /\ IF ok
              THEN /\ smsdb' = IF d \in DOMAIN smsdb
                               THEN [smsdb EXCEPT ![d].sent_today = loc[p].cur + 1]
                               ELSE smsdb
                   /\ pc' = [pc EXCEPT ![p] = "sms_inc_refresh"]
                   /\ UNCHANGED <<loc, resp>>
              ELSE /\ SmsDelivered(p)
                   /\ UNCHANGED smsdb
    /\ UNCHANGED <<otp_store, now, nreq, otps, tokens, accounts, DEVICES, LAST_REFRESH, overlap>>

\* _increment_sent_count_in_db, line 105: refresh the cache, then return
SmsIncRefresh(p) ==
    /\ pc[p] = "sms_inc_refresh"
    /\ \E ok \in StoreOutcomes :
        LET fresh == RefreshDevicesFromDb(smsdb, ok, now, LAST_REFRESH)
        IN /\ Spend(ok)
           /\ DEVICES' = fresh[1]
           /\ LAST_REFRESH' = fresh[2]
           /\ SmsDelivered(p)
    /\ UNCHANGED <<otp_store, now, nreq, otps, tokens, accounts, smsdb, overlap>>

\* _mark_device_offline, line 114
SmsOffWrite(p) ==
    /\ pc[p] = "sms_off_write"
    /\ \E ok \in StoreOutcomes :
        LET d == loc[p].cands[loc[p].idx]
        IN /\ Spend(ok)
           /\ IF ok
              THEN /\ smsdb' = IF d \in DOMAIN smsdb
                               THEN [smsdb EXCEPT ![d].status = "offline"]
                               ELSE smsdb
                   /\ pc' = [pc EXCEPT ![p] = "sms_off_refresh"]
                   /\ UNCHANGED <<loc, resp>>
              ELSE /\ SmsNextCandidate(p, "from_invalid")
                   /\ UNCHANGED smsdb
    /\ UNCHANGED <<otp_store, now, nreq, otps, tokens, accounts, DEVICES, LAST_REFRESH, overlap>>

\* a mark-offline that leaves the cache as it was
SmsOffRefresh_Stale(p) ==
    /\ pc[p] = "sms_off_refresh"
    /\ SmsNextCandidate(p, "from_invalid")
    /\ UNCHANGED <<otp_store, now, nreq, faults, otps, tokens, accounts, smsdb, DEVICES,
                   LAST_REFRESH, overlap>>

\* _mark_device_offline, line 115, then the loop goes on
SmsOffRefresh(p) ==
    /\ pc[p] = "sms_off_refresh"
    /\ \E ok \in StoreOutcomes :
        LET fresh == RefreshDevicesFromDb(smsdb, ok, now, LAST_REFRESH)
        IN /\ Spend(ok)
           /\ DEVICES' = fresh[1]
           /\ LAST_REFRESH' = fresh[2]
           /\ SmsNextCandidate(p, "from_invalid")
    /\ UNCHANGED <<otp_store, now, nreq, otps, tokens, accounts, smsdb, overlap>>

SmsStep(p) ==
    \/ SmsCandidates(p)
    \/ SmsPost(p)
    \/ SmsIncRead(p)
    \/ SmsIncWrite(p)
    \/ SmsIncRefresh(p)
    \/ SmsOffWrite(p)
    \/ SmsOffRefresh(p)

\* a caller enters send_sms_with_fallback(to_phone, content, try_limit)
SendSmsWithFallback(p, to_phone, try_limit) ==
    /\ Idle(p)
    /\ nreq < MaxSmsReqs
    /\ nreq' = nreq + 1
    /\ pc' = [pc EXCEPT ![p] = "sms_cand"]
    /\ loc' = [loc EXCEPT ![p] = [IdleLoc EXCEPT !.op = "sms", !.phone = to_phone,
                                        !.try_limit = try_limit, !.ret = "done"]]
    /\ UNCHANGED <<otp_store, now, faults, otps, tokens, accounts, smsdb, DEVICES,
                   LAST_REFRESH, resp, overlap>>

(***************************************************************************)
(* Accounts: tables users and vendors.                                     *)
(***************************************************************************)
Account(id, kind, phone, hash) ==
    [id |-> id, kind |-> kind, phone |-> phone, password_hash |-> hash,
     pw_tokens |-> {}]

\* werkzeug generate_password_hash: salted, so every call gives a new hash
GeneratePasswordHash(password, salt) == <<password, salt>>

KindRows(accts, kind, ph) ==
    {i \in DOMAIN accts : accts[i].kind = kind /\ accts[i].phone = ph}

\* password_reset_routes._phone_exists: the ids it may return (0: nobody);
\* users first, then vendors; r.data[0] is whichever row the store lists first
PhoneExists(accts, ph, ok) ==
    IF ~ok THEN {0}
    ELSE IF KindRows(accts, "user", ph) # {} THEN KindRows(accts, "user", ph)
    ELSE IF KindRows(accts, "vendor", ph) # {} THEN KindRows(accts, "vendor", ph)
    ELSE {0}

(***************************************************************************)
(* issue: otp_routes.send_otp and password_reset_routes.request_reset      *)
(***************************************************************************)
ExpireSeconds(op) ==
    IF op = "send_otp" THEN OTP_EXPIRE_MINUTES * 60
    ELSE RESET_OTP_EXPIRE_MINUTES * 60

\* the row both handlers insert
NewOtpRow(id, phone, otp, t, sub, op) ==
    [id |-> id, phone |-> phone, otp_hash |-> HashOtp(otp), status |-> "PENDING",
     attempts |-> 0, created_at |-> t, created_sub |-> sub,
     expires_at |-> t + ExpireSeconds(op), sent_via |-> "", verified_at |-> -1]

\* send_otp lines 31-40, request_reset lines 40-53
IssueStart(p, op, phone, otp) ==
    /\ Idle(p)
    /\ nreq < MaxReqs
    /\ nreq' = nreq + 1
    /\ \E ok \in StoreOutcomes : \E a \in PhoneExists(accounts, phone, ok) :
        LET me == [IdleLoc EXCEPT !.op = op, !.phone = phone, !.otp = otp,
                                  !.t0 = now, !.sub = nreq + 1]
        IN /\ (op = "send_otp" \/ phone = "" => ok)
           /\ Spend(ok)
           /\ IF phone = ""
              THEN /\ Finish(p, [NoResp EXCEPT !.op = op, !.http = 400, !.result = "Missing"])
                   /\ UNCHANGED overlap
              ELSE IF op = "request_reset" /\ a = 0
              THEN /\ Finish(p, [NoResp EXCEPT !.op = op, !.phone = phone, !.http = 404,
                                               !.result = "AccountNotFound"])
                   /\ UNCHANGED overlap
              ELSE /\ pc' = [pc EXCEPT ![p] = "iss_insert"]
                   /\ loc' = [loc EXCEPT ![p] = me]
                   /\ NoteStart(p, phone)
                   /\ UNCHANGED resp
    /\ UNCHANGED <<otp_store, now, otps, tokens, accounts, smsdb, DEVICES, LAST_REFRESH>>

\* an insert whose failure is ignored: the handler goes on to the sender
IssueInsert_SendAnyway(p) ==
    /\ pc[p] = "iss_insert"
    /\ \E ok \in StoreOutcomes :
        /\ Spend(ok)
        /\ otps' = IF ok
                   THEN Append(otps, NewOtpRow(Len(otps) + 1, loc[p].phone, loc[p].otp,
                                               loc[p].t0, loc[p].sub, loc[p].op))
                   ELSE otps
        /\ pc' = [pc EXCEPT ![p] = "sms_cand"]
        /\ loc' = [loc EXCEPT ![p] = [@ EXCEPT !.ins = IF ok THEN Len(otps) + 1 ELSE 0,
                                                !.ret = "iss_update"]]
        /\ UNCHANGED resp
    /\ UNCHANGED <<otp_store, now, nreq, tokens, accounts, smsdb, DEVICES, LAST_REFRESH, overlap>>

\* send_otp lines 51-58, request_reset lines 64-70: insert, then call the sender
IssueInsert(p) ==
    /\ pc[p] = "iss_insert"
    /\ \E ok \in StoreOutcomes :
        /\ Spend(ok)
        /\ IF ok
           THEN /\ otps' = Append(otps, NewOtpRow(Len(otps) + 1, loc[p].phone, loc[p].otp,
                                                  loc[p].t0, loc[p].sub, loc[p].op))
                /\ pc' = [pc EXCEPT ![p] = "sms_cand"]
                /\ loc' = [loc EXCEPT ![p] = [@ EXCEPT !.ins = Len(otps) + 1,
                                                        !.ret = "iss_update"]]
                /\ UNCHANGED resp
           ELSE /\ Finish(p, Reply(p, 500, "StoreError", "DB insert failed"))
                /\ UNCHANGED otps
    /\ UNCHANGED <<otp_store, now, nreq, tokens, accounts, smsdb, DEVICES, LAST_REFRESH, overlap>>

\* an update that reaches the phone's oldest row instead of its latest
UpdateLatest_Oldest(tbl, phone, status, device) ==
    IF PhoneRows(tbl, phone) = {} THEN tbl
    ELSE LET i == CHOOSE k \in PhoneRows(tbl, phone) :
                    \A j \in PhoneRows(tbl, phone) : k <= j
         IN IF status = "SENT"
            THEN [tbl EXCEPT ![i].status = "SENT", ![i].sent_via = device]
            ELSE [tbl EXCEPT ![i].status = status]

\* the update both handlers send after the SMS: .eq("phone", phone)
\* .order("created_at", desc).limit(1).  The store client is outside the
\* repository: the call is taken to do what it is written to do, reach the
\* phone's most recently created row.
UpdateLatest(tbl, phone, status, device) ==
    LET i == LatestId(tbl, phone)
    IN IF i = 0 THEN tbl
       ELSE IF status = "SENT"
            THEN [tbl EXCEPT ![i].status = "SENT", ![i].sent_via = device]
            ELSE [tbl EXCEPT ![i].status = status]

\* send_otp lines 60-78, request_reset lines 72-87
IssueUpdate(p) ==
    /\ pc[p] = "iss_update"
    /\ \E ok \in StoreOutcomes :
        /\ Spend(ok)
        /\ IF loc[p].send.success
           THEN /\ otps' = IF ok THEN UpdateLatest(otps, loc[p].phone, "SENT", loc[p].send.device)
                           ELSE otps
                /\ Finish(p, Reply(p, 200, "Sent", loc[p].send.device))
           ELSE /\ otps' = IF ok THEN UpdateLatest(otps, loc[p].phone, "FAILED", "")
                           ELSE otps
                /\ Finish(p, Reply(p, 502, "DeliveryFailed", loc[p].send.error))
    /\ UNCHANGED <<otp_store, now, nreq, tokens, accounts, smsdb, DEVICES, LAST_REFRESH, overlap>>

(***************************************************************************)
(* verify: otp_routes.verify_otp and                                       *)
(* password_reset_routes.verify_reset_otp                                  *)
(***************************************************************************)
\* a status check that forgets VERIFIED
IsFinal_ExpiredOnly(status) == status = "EXPIRED"

IsFinal(status) == status \in {"VERIFIED", "EXPIRED"}

\* an expiry check that never fires
IsExpired_Never(t, expires_at) == FALSE

\* if now > exp_dt
IsExpired(t, expires_at) == t > expires_at

\* a decision that compares the code before it looks at the clock
VerifyDecision_HashFirst(row, otp, t) ==
    IF IsFinal(row.status) THEN "AlreadyFinalized"
    ELSE IF HashOtp(otp) = row.otp_hash THEN "Verified"
    ELSE IF IsExpired(t, row.expires_at) THEN "Expired"
    ELSE "InvalidCode"

\* verify_otp lines 118-127, verify_reset_otp lines 116-122: what the
\* handler decides from the row it read, the submitted code and the clock
VerifyDecision(row, otp, t) ==
    IF IsFinal(row.status) THEN "AlreadyFinalized"
    ELSE IF IsExpired(t, row.expires_at) THEN "Expired"
    ELSE IF HashOtp(otp) = row.otp_hash THEN "Verified"
    ELSE "InvalidCode"

\* verify_otp lines 86-107, verify_reset_otp lines 92-106
VerifyRead(p, op, phone, otp) ==
    /\ Idle(p)
    /\ nreq < MaxReqs
    /\ nreq' = nreq + 1
    /\ \E ok \in StoreOutcomes :
        LET i == LatestId(otps, phone)
            me == [IdleLoc EXCEPT !.op = op, !.phone = phone, !.otp = otp,
                                  !.sub = nreq + 1]
            r == [NoResp EXCEPT !.op = op, !.phone = phone]
        IN /\ (phone = "" \/ otp = 0 => ok)
           /\ Spend(ok)
           /\ IF phone = "" \/ otp = 0
              THEN /\ Finish(p, [r EXCEPT !.http = 400, !.result = "Missing"])
                   /\ UNCHANGED overlap
              ELSE IF ~ok
              THEN /\ Finish(p, [r EXCEPT !.http = 500, !.result = "StoreError"])
                   /\ UNCHANGED overlap
              ELSE IF i = 0
              THEN /\ Finish(p, [r EXCEPT !.http = 404, !.result = "NotFound"])
                   /\ UNCHANGED overlap
              ELSE /\ pc' = [pc EXCEPT ![p] = "v_check"]
                   /\ loc' = [loc EXCEPT ![p] = [me EXCEPT !.row = otps[i]]]
                   /\ NoteStart(p, phone)
                   /\ UNCHANGED resp
    /\ UNCHANGED <<otp_store, now, otps, tokens, accounts, smsdb, DEVICES, LAST_REFRESH>>

\* a check that sends a wrong code on to the VERIFIED write
VerifyCheck_AnyCode(p) ==
    /\ pc[p] = "v_check"
    /\ LET d == VerifyDecision(loc[p].row, loc[p].otp, now)
       IN IF d = "AlreadyFinalized"
          THEN Finish(p, Reply(p, 400, "AlreadyFinalized", loc[p].row.status))
          ELSE /\ pc' = [pc EXCEPT ![p] = IF d = "Expired" THEN "v_expire" ELSE "v_mark"]
               /\ UNCHANGED <<loc, resp>>
    /\ UNCHANGED <<otp_store, now, nreq, faults, otps, tokens, accounts, smsdb, DEVICES,
                   LAST_REFRESH, overlap>>

\* verify_otp lines 110-127, verify_reset_otp lines 109-122
VerifyCheck(p) ==
    /\ pc[p] = "v_check"
    /\ LET d == VerifyDecision(loc[p].row, loc[p].otp, now)
       IN IF d = "AlreadyFinalized"
          THEN Finish(p, Reply(p, 400, "AlreadyFinalized", loc[p].row.status))
          ELSE /\ pc' = [pc EXCEPT ![p] =
                            CASE d = "Expired" -> "v_expire"
                              [] d = "Verified" -> "v_mark"
                              [] OTHER -> "v_attempt"]
               /\ UNCHANGED <<loc, resp>>
    /\ UNCHANGED <<otp_store, now, nreq, faults, otps, tokens, accounts, smsdb, DEVICES,
                   LAST_REFRESH, overlap>>

\* verify_otp lines 121-122, verify_reset_otp lines 119-120 (outside any try)
VerifyExpire(p) ==
    /\ pc[p] = "v_expire"
    /\ \E ok \in StoreOutcomes :
        /\ Spend(ok)
        /\ IF ok
           THEN /\ otps' = [otps EXCEPT ![loc[p].row.id].status = "EXPIRED"]
                /\ Finish(p, Reply(p, 400, "Expired", ""))
           ELSE /\ Finish(p, Reply(p, 500, "Unhandled", ""))
                /\ UNCHANGED otps
    /\ UNCHANGED <<otp_store, now, nreq, tokens, accounts, smsdb, DEVICES, LAST_REFRESH, overlap>>

\* a VERIFIED step that goes on to the token without writing the row
VerifyMark_NoWrite(p) ==
    /\ pc[p] = "v_mark"
    /\ \E ok \in StoreOutcomes :
        /\ Spend(ok)
        /\ IF loc[p].op = "verify_otp"
           THEN Finish(p, Reply(p, 200, "Verified", ""))
           ELSE /\ pc' = [pc EXCEPT ![p] = "v_token"]
                /\ UNCHANGED <<loc, resp>>
        /\ UNCHANGED otps
    /\ UNCHANGED <<otp_store, now, nreq, tokens, accounts, smsdb, DEVICES, LAST_REFRESH, overlap>>

\* verify_otp lines 128-133, verify_reset_otp line 124 (outside any try)
VerifyMark(p) ==
    /\ pc[p] = "v_mark"
    /\ \E ok \in StoreOutcomes :
        /\ Spend(ok)
        /\ IF ok
           THEN /\ otps' = [otps EXCEPT ![loc[p].row.id].status = "VERIFIED",
                                        ![loc[p].row.id].verified_at = now]
                /\ IF loc[p].op = "verify_otp"
                   THEN Finish(p, Reply(p, 200, "Verified", ""))
                   ELSE /\ pc' = [pc EXCEPT ![p] = "v_token"]
                        /\ UNCHANGED <<loc, resp>>
           ELSE /\ Finish(p, Reply(p, 500, "Unhandled", ""))
                /\ UNCHANGED otps
    /\ UNCHANGED <<otp_store, now, nreq, tokens, accounts, smsdb, DEVICES, LAST_REFRESH, overlap>>

\* a wrong-code branch that writes the attempts it read, without the + 1
VerifyAttempt_NoIncrement(p) ==
    /\ pc[p] = "v_attempt"
    /\ \E ok \in StoreOutcomes :
        /\ Spend(ok)
        /\ otps' = IF ok
                   THEN [otps EXCEPT ![loc[p].row.id].attempts = loc[p].row.attempts]
                   ELSE otps
        /\ Finish(p, Reply(p, 400, "InvalidCode", ""))
    /\ UNCHANGED <<otp_store, now, nreq, tokens, accounts, smsdb, DEVICES, LAST_REFRESH, overlap>>

\* verify_otp lines 135-141, verify_reset_otp lines 154-158
VerifyAttempt(p) ==
    /\ pc[p] = "v_attempt"
    /\ \E ok \in StoreOutcomes :
        /\ Spend(ok)
        /\ otps' = IF ok
                   THEN [otps EXCEPT ![loc[p].row.id].attempts = loc[p].row.attempts + 1]
                   ELSE otps
        /\ Finish(p, Reply(p, 400, "InvalidCode", ""))
    /\ UNCHANGED <<otp_store, now, nreq, tokens, accounts, smsdb, DEVICES, LAST_REFRESH, overlap>>

(***************************************************************************)
(* reset tokens: verify_reset_otp lines 126-151, password_reset_complete   *)
(***************************************************************************)
AccountType(kind) == IF kind = "vendor" THEN "VENDOR" ELSE "USER"

\* verify_reset_otp lines 127-142: the token row, for account a (0: none)
NewTokenRow(token, t, accts, a) ==
    [id |-> 0, token |-> token,
     account_type |-> IF a = 0 THEN "USER" ELSE AccountType(accts[a].kind),
     account_id |-> IF a = 0 THEN 0 ELSE accts[a].id,
     expires_at |-> t + TOKEN_EXPIRE_MINUTES * 60, used |-> FALSE, created_at |-> t]

\* verify_reset_otp lines 127-142: uuid4, clock, _phone_exists
TokenResolve(p) ==
    /\ pc[p] = "v_token"
    /\ \E ok \in StoreOutcomes : \E a \in PhoneExists(accounts, loc[p].phone, ok) :
        /\ Spend(ok)
        /\ pc' = [pc EXCEPT ![p] = "v_tok_insert"]
        /\ loc' = [loc EXCEPT ![p] = [@ EXCEPT !.token = loc[p].sub,
                        !.trow = NewTokenRow(loc[p].sub, now, accounts, a)]]
    /\ UNCHANGED <<otp_store, now, nreq, otps, tokens, accounts, smsdb, DEVICES, LAST_REFRESH,
                   resp, overlap>>

\* verify_reset_otp lines 144-151
TokenInsert(p) ==
    /\ pc[p] = "v_tok_insert"
    /\ \E ok \in StoreOutcomes :
        /\ Spend(ok)
        /\ tokens' = IF ok THEN Append(tokens, [loc[p].trow EXCEPT !.id = Len(tokens) + 1])
                     ELSE tokens
        /\ Finish(p, [Reply(p, 200, "Verified",
                            IF ok THEN "" ELSE "token creation failed in DB")
                      EXCEPT !.token = loc[p].token])
    /\ UNCHANGED <<otp_store, now, nreq, otps, accounts, smsdb, DEVICES, LAST_REFRESH, overlap>>

(***************************************************************************)
(* signup_routes.py                                                        *)
(***************************************************************************)
\* signup_user lines 55-67, signup_vendor lines 82-93
SignupCheck(p, kind, phone, password) ==
    /\ Idle(p)
    /\ nreq < MaxReqs
    /\ nreq' = nreq + 1
    /\ \E ok \in StoreOutcomes :
        LET i == IF ok THEN LatestVerifiedId(otps, phone) ELSE 0
            r == [NoResp EXCEPT !.op = "signup", !.phone = phone, !.info = kind]
        IN /\ (phone = "" => ok)
           /\ Spend(ok)
           /\ IF phone = ""
              THEN Finish(p, [r EXCEPT !.http = 400, !.result = "Missing"])
              ELSE IF i = 0
              THEN \* lines 67 and 93
                   Finish(p, [r EXCEPT !.http = 400, !.result = "PhoneNotVerified"])
              ELSE /\ pc' = [pc EXCEPT ![p] = "su_insert"]
                   /\ loc' = [loc EXCEPT ![p] = [IdleLoc EXCEPT !.op = "signup",
                                !.phone = phone, !.kind = kind, !.row = otps[i],
                                !.new_password = password, !.sub = nreq + 1]]
                   /\ UNCHANGED resp
    /\ UNCHANGED <<otp_store, now, otps, tokens, accounts, smsdb, DEVICES, LAST_REFRESH, overlap>>

\* _create_user_record
SignupInsert(p) ==
    /\ pc[p] = "su_insert"
    /\ \E ok \in StoreOutcomes :
        /\ Spend(ok)
        /\ accounts' = IF ok
                       THEN Append(accounts,
                                Account(Len(accounts) + 1, loc[p].kind, loc[p].phone,
                                    GeneratePasswordHash(loc[p].new_password, loc[p].sub)))
                       ELSE accounts
        /\ Finish(p, [Reply(p, IF ok THEN 201 ELSE 500,
                            IF ok THEN "Registered" ELSE "StoreError", loc[p].kind)
                      EXCEPT !.op = "signup"])
    /\ UNCHANGED <<otp_store, now, nreq, otps, tokens, smsdb, DEVICES, LAST_REFRESH, overlap>>

(***************************************************************************)
(* password_reset_routes.password_reset_complete                           *)
(***************************************************************************)
TokenRows(tbl, token) == {i \in DOMAIN tbl : tbl[i].token = token}

\* a kind guard that lets every token through
TokenMismatch_Never(acct_type, kind) == FALSE

\* lines 194-203: the token's account_type against the kind found by phone
TokenMismatch(acct_type, kind) ==
    \/ acct_type = "USER" /\ kind # "user"
    \/ acct_type = "VENDOR" /\ kind # "vendor"

\* line 209: update({"password_hash": h}).eq("phone", phone) on table kind
UpdatePasswordHash(accts, kind, phone, h, token_id) ==
    [i \in DOMAIN accts |->
        IF accts[i].kind = kind /\ accts[i].phone = phone
        THEN [accts[i] EXCEPT !.password_hash = h, !.pw_tokens = @ \cup {token_id}]
        ELSE accts[i]]

\* lines 163-178: the body's fields, then the token row by its value
CompleteRead(p, phone, token, new_password) ==
    /\ Idle(p)
    /\ nreq < MaxReqs
    /\ nreq' = nreq + 1
    /\ \E ok \in StoreOutcomes :
        LET r == [NoResp EXCEPT !.op = "complete", !.phone = phone, !.token = token]
        IN /\ (phone = "" => ok)
           /\ Spend(ok)
           /\ IF phone = ""
              THEN /\ Finish(p, [r EXCEPT !.http = 400, !.result = "Missing"])
                   /\ UNCHANGED overlap
              ELSE IF ~ok
              THEN /\ Finish(p, [r EXCEPT !.http = 500, !.result = "StoreError"])
                   /\ UNCHANGED overlap
              ELSE IF TokenRows(tokens, token) = {}
              THEN /\ Finish(p, [r EXCEPT !.http = 400, !.result = "InvalidToken"])
                   /\ UNCHANGED overlap
              ELSE /\ NoteConsume(p, token)
                   /\ pc' = [pc EXCEPT ![p] = "c_check"]
                   /\ loc' = [loc EXCEPT ![p] = [IdleLoc EXCEPT !.op = "complete",
                                !.phone = phone, !.token = token,
                                !.new_password = new_password, !.sub = nreq + 1,
                                !.trow = tokens[CHOOSE i \in TokenRows(tokens, token) : TRUE]]]
                   /\ UNCHANGED resp
    /\ UNCHANGED <<otp_store, now, otps, tokens, accounts, smsdb, DEVICES, LAST_REFRESH>>

\* a decision that forgets the used flag
CompleteDecision_NoUsedCheck(trow, t) ==
    IF IsExpired(t, trow.expires_at) THEN "Expired" ELSE "Live"

\* lines 181-191: what the handler decides from the token row and the clock
CompleteDecision(trow, t) ==
    IF trow.used THEN "AlreadyUsed"
    ELSE IF IsExpired(t, trow.expires_at) THEN "Expired"
    ELSE "Live"

CompleteReply(p, http, result) ==
    [Reply(p, http, result, "") EXCEPT !.token = loc[p].token]

\* lines 181-191
CompleteCheck(p) ==
    /\ pc[p] = "c_check"
    /\ LET d == CompleteDecision(loc[p].trow, now)
       IN IF d = "Live"
          THEN /\ pc' = [pc EXCEPT ![p] = "c_acct"]
               /\ UNCHANGED <<loc, resp>>
          ELSE Finish(p, CompleteReply(p, 400, d))
    /\ UNCHANGED <<otp_store, now, nreq, faults, otps, tokens, accounts, smsdb, DEVICES,
                   LAST_REFRESH, overlap>>

\* lines 194-203: _phone_exists(phone) and the kind guard
CompleteAccount(p) ==
    /\ pc[p] = "c_acct"
    /\ \E ok \in StoreOutcomes : \E a \in PhoneExists(accounts, loc[p].phone, ok) :
        /\ Spend(ok)
        /\ IF a = 0
           THEN Finish(p, CompleteReply(p, 404, "AccountNotFound"))
           ELSE IF TokenMismatch(loc[p].trow.account_type, accounts[a].kind)
           THEN Finish(p, CompleteReply(p, 400, "PhoneMismatch"))
           ELSE /\ pc' = [pc EXCEPT ![p] = "c_pw"]
                /\ loc' = [loc EXCEPT ![p] = [@ EXCEPT !.kind = accounts[a].kind, !.acct = a]]
                /\ UNCHANGED resp
    /\ UNCHANGED <<otp_store, now, nreq, otps, tokens, accounts, smsdb, DEVICES, LAST_REFRESH, overlap>>

\* a password write whose failure is swallowed: the handler goes on
CompletePassword_Swallow(p) ==
    /\ pc[p] = "c_pw"
    /\ \E ok \in StoreOutcomes :
        /\ Spend(ok)
        /\ accounts' = IF ok
                       THEN UpdatePasswordHash(accounts, loc[p].kind, loc[p].phone,
                                GeneratePasswordHash(loc[p].new_password, loc[p].sub),
                                loc[p].trow.id)
                       ELSE accounts
        /\ pc' = [pc EXCEPT ![p] = "c_used"]
        /\ UNCHANGED <<loc, resp>>
    /\ UNCHANGED <<otp_store, now, nreq, otps, tokens, smsdb, DEVICES, LAST_REFRESH, overlap>>

\* lines 206-209: hash the new password, write it
CompletePassword(p) ==
    /\ pc[p] = "c_pw"
    /\ \E ok \in StoreOutcomes :
        /\ Spend(ok)
        /\ IF ok
           THEN /\ accounts' = UpdatePasswordHash(accounts, loc[p].kind, loc[p].phone,
                                    GeneratePasswordHash(loc[p].new_password, loc[p].sub),
                                    loc[p].trow.id)
                /\ pc' = [pc EXCEPT ![p] = "c_used"]
                /\ UNCHANGED <<loc, resp>>
           ELSE /\ Finish(p, CompleteReply(p, 500, "StoreError"))
                /\ UNCHANGED accounts
    /\ UNCHANGED <<otp_store, now, nreq, otps, tokens, smsdb, DEVICES, LAST_REFRESH, overlap>>

\* a handler that answers Ok and leaves the token as it was
CompleteUsed_NoMark(p) ==
    /\ pc[p] = "c_used"
    /\ \E ok \in StoreOutcomes :
        /\ Spend(ok)
        /\ IF ok
           THEN Finish(p, CompleteReply(p, 200, "Ok"))
           ELSE Finish(p, CompleteReply(p, 500, "StoreError"))
    /\ UNCHANGED <<otp_store, now, nreq, otps, tokens, accounts, smsdb, DEVICES,
                   LAST_REFRESH, overlap>>

\* lines 211-214: mark the token used
CompleteUsed(p) ==
    /\ pc[p] = "c_used"
    /\ \E ok \in StoreOutcomes :
        /\ Spend(ok)
        /\ IF ok
           THEN /\ tokens' = [tokens EXCEPT ![loc[p].trow.id].used = TRUE]
                /\ Finish(p, CompleteReply(p, 200, "Ok"))
           ELSE /\ Finish(p, CompleteReply(p, 500, "StoreError"))
                /\ UNCHANGED tokens
    /\ UNCHANGED <<otp_store, now, nreq, otps, accounts, smsdb, DEVICES, LAST_REFRESH, overlap>>

\* the clock advances
Tick(step) ==
    /\ now + step <= MaxTicks * step
    /\ now' = now + step
    /\ UNCHANGED <<otp_store, nreq, faults, otps, tokens, accounts, smsdb, DEVICES,
                   LAST_REFRESH, pc, loc, resp, overlap>>

\* someone outside the program edits a device row (the daily reset of
\* sent_today, taking a device offline or putting it back)
ExternalDeviceStatus(d, st) ==
    /\ d \in DOMAIN smsdb
    /\ smsdb[d].status # st
    /\ smsdb' = [smsdb EXCEPT ![d].status = st]
    /\ UNCHANGED <<otp_store, now, nreq, faults, otps, tokens, accounts, DEVICES,
                   LAST_REFRESH, pc, loc, resp, overlap>>

DeviceRow(d, sent, st) ==
    [phone |-> d, sent_today |-> sent,
     daily_quota |-> HTTPSMS_DEVICE_MAX_PER_DAY, status |-> st]

InitCommon ==
    /\ now = 0
    /\ otp_store = <<>>
    /\ nreq = 0
    /\ pc = [p \in Procs |-> "idle"]
    /\ loc = [p \in Procs |-> IdleLoc]
    /\ resp = NoResp
    /\ overlap = [phone |-> {}, token |-> {}]

\* after import: _ensure_devices_in_db upserted the rows and refreshed
InitSms ==
    /\ InitCommon
    /\ otps = <<>>
    /\ tokens = <<>>
    /\ faults = MaxFaults
    /\ accounts = <<>>
    /\ smsdb \in {[d \in HTTPSMS_DEVICES |-> DeviceRow(d, s[d], st[d])] :
                    s \in [HTTPSMS_DEVICES -> {0}],
                    st \in [HTTPSMS_DEVICES -> {"active", "offline"}]}
    /\ smsdb["devA"].status = "active" /\ smsdb["devB"].status = "active"
    /\ smsdb["devC"].status = "offline"
    /\ DEVICES \in {NoDevices, RefreshDevicesFromDb(smsdb, TRUE, 0, 0)[1]}
    /\ LAST_REFRESH = 0

\* concurrent sends over two live devices (devC stays out of service)
NextSms ==
    \/ \E p \in Procs : \E ph \in {"+911"} : \E tl \in {<<>>, <<1>>} :
            SendSmsWithFallback(p, ph, tl)
    \/ \E p \in Procs : SmsStep(p)
    \/ Tick(REFRESH_TTL)
    \/ \E d \in {"devA", "devB"} : \E st \in {"active", "offline"} :
            ExternalDeviceStatus(d, st)

SpecSms == InitSms /\ [][NextSms]_vars

(***************************************************************************)
(* One send at a time over three devices, from every pool the store can    *)
(* hold: each device active or offline, fresh, used once or at its quota.  *)
(* The store may fail (MaxFaults times); the sender is called with and     *)
(* without try_limit and with an empty to_phone.  The store with no device  *)
(* row is the one the import-time upsert failed on (lines 193-198).        *)
(***************************************************************************)
SentTodays == {0, 1, HTTPSMS_DEVICE_MAX_PER_DAY}

InitSend ==
    /\ InitCommon
    /\ otps = <<>>
    /\ tokens = <<>>
    /\ faults = MaxFaults
    /\ accounts = <<>>
    /\ smsdb \in {[d \in HTTPSMS_DEVICES |-> DeviceRow(d, s[d], st[d])] :
                    s \in [HTTPSMS_DEVICES -> SentTodays],
                    st \in [HTTPSMS_DEVICES -> {"active", "offline"}]}
                \cup {NoDevices}
    /\ DEVICES = IF smsdb = NoDevices THEN NoDevices
                 ELSE RefreshDevicesFromDb(smsdb, TRUE, 0, 0)[1]
    /\ LAST_REFRESH = 0

NextSend ==
    \/ \E ph \in {"+911", ""} : \E tl \in TryLimits : SendSmsWithFallback(1, ph, tl)
    \/ SmsStep(1)
    \/ Tick(REFRESH_TTL)

SpecSend == InitSend /\ [][NextSend]_vars

(***************************************************************************)
(* Issue alone, with a store that may fail (MaxFaults times).              *)
(***************************************************************************)
InitIssue ==
    /\ InitCommon
    /\ faults = MaxFaults
    /\ accounts = <<Account(1, "user", "+911", GeneratePasswordHash("pw1", 0))>>
    /\ otps = <<>>
    /\ tokens = <<>>
    /\ smsdb = [d \in HTTPSMS_DEVICES |->
                    DeviceRow(d, 0, IF d = "devA" THEN "active" ELSE "offline")]
    /\ DEVICES = RefreshDevicesFromDb(smsdb, TRUE, 0, 0)[1]
    /\ LAST_REFRESH = 0

IssueStep(p) ==
    \/ \E op \in IssueOps : \E ph \in {"+911"} : \E c \in {1234} : IssueStart(p, op, ph, c)
    \/ IssueInsert(p)
    \/ IssueUpdate(p)

NextIssue ==
    \/ \E p \in Procs : IssueStep(p)
    \/ \E p \in Procs : SmsStep(p)
    \/ Tick(REFRESH_TTL)

SpecIssue == InitIssue /\ [][NextIssue]_vars

(***************************************************************************)
(* The OTP engine: the issue and verify handlers of otp_routes.py and     *)
(* password_reset_routes.py, with the sender they call, interleaved step   *)
(* by step.  The store is reliable here (faults = 0).                      *)
(***************************************************************************)
\* A code issued earlier by send_otp to "+911", delivered by devA
SentRow ==
    [NewOtpRow(1, "+911", 1234, 0, 0, "send_otp")
        EXCEPT !.status = "SENT", !.sent_via = "devA"]

\* devB and devC were taken offline earlier, so the pool has one candidate
InitDevices(sent) ==
    /\ smsdb = [d \in HTTPSMS_DEVICES |->
                    DeviceRow(d, IF d = "devA" THEN sent ELSE 0,
                                 IF d = "devA" THEN "active" ELSE "offline")]
    /\ DEVICES = RefreshDevicesFromDb(smsdb, TRUE, 0, 0)[1]
    /\ LAST_REFRESH = 0

Init ==
    /\ InitCommon
    /\ faults = 0
    /\ accounts = <<Account(1, "user", "+911", GeneratePasswordHash("pw1", 0))>>
    /\ otps \in {<<>>, <<SentRow>>}
    /\ tokens = <<>>
    /\ InitDevices(Len(otps))

OtpStep(p) ==
    \/ \E op \in IssueOps : \E ph \in Phones \cup {""} : \E c \in Codes :
            IssueStart(p, op, ph, c)
    \/ IssueInsert(p)
    \/ IssueUpdate(p)
    \/ \E op \in VerifyOps : \E ph \in Phones \cup {""} : \E c \in Codes :
            VerifyRead(p, op, ph, c)
    \/ VerifyCheck(p)
    \/ VerifyExpire(p)
    \/ VerifyMark(p)
    \/ VerifyAttempt(p)
    \/ TokenResolve(p)
    \/ TokenInsert(p)

Next ==
    \/ \E p \in Procs : OtpStep(p)
    \/ \E p \in Procs : SmsStep(p)
    \/ Tick(TickSeconds)

Spec == Init /\ [][Next]_vars

(***************************************************************************)
(* Password reset: the verify route that issues a token and the complete   *)
(* route that consumes it.  The store may fail (MaxFaults times).          *)
(***************************************************************************)
\* A code issued earlier by request_reset to "+911", delivered by devA
ResetSentRow ==
    [NewOtpRow(1, "+911", 1234, 0, 0, "request_reset")
        EXCEPT !.status = "SENT", !.sent_via = "devA"]

ResetAccounts ==
    <<Account(1, "user", "+911", GeneratePasswordHash("pw1", 0)),
      Account(2, "user", "+912", GeneratePasswordHash("pw1", 0)),
      Account(3, "vendor", "+913", GeneratePasswordHash("pw1", 0))>>

\* the token verify_reset_otp issued for that code, at time 0
IssuedToken == [NewTokenRow(7, 0, ResetAccounts, 1) EXCEPT !.id = 1]

InitReset ==
    /\ InitCommon
    /\ faults = MaxFaults
    /\ accounts = ResetAccounts
    /\ \/ otps = <<ResetSentRow>> /\ tokens = <<>>
       \/ /\ otps = <<[ResetSentRow EXCEPT !.status = "VERIFIED", !.verified_at = 0]>>
          /\ tokens = <<IssuedToken>>
    /\ InitDevices(1)

ResetStep(p) ==
    \/ \E ph \in {"+911", "+913"} : \E c \in Codes : VerifyRead(p, "verify_reset_otp", ph, c)
    \/ VerifyCheck(p)
    \/ VerifyExpire(p)
    \/ VerifyMark(p)
    \/ VerifyAttempt(p)
    \/ TokenResolve(p)
    \/ TokenInsert(p)
    \/ \E ph \in {"+911", "+912", "+913", "+914"} : \E tk \in {1, 2, 7} :
            CompleteRead(p, ph, tk, "pw2")
    \/ CompleteCheck(p)
    \/ CompleteAccount(p)
    \/ CompletePassword(p)
    \/ CompleteUsed(p)

NextReset ==
    \/ \E p \in Procs : ResetStep(p)
    \/ Tick(LongTickSeconds)

SpecReset == InitReset /\ [][NextReset]_vars

(***************************************************************************)
(* Token issuance next to issue: request_reset and verify_reset_otp for    *)
(* one phone, with a store that may fail (MaxFaults times).                *)
(***************************************************************************)
InitToken ==
    /\ InitCommon
    /\ faults = MaxFaults
    /\ accounts = ResetAccounts
    /\ otps \in {<<>>, <<ResetSentRow>>}
    /\ tokens = <<>>
    /\ InitDevices(Len(otps))

TokenStep(p) ==
    \/ \E c \in Codes : IssueStart(p, "request_reset", "+911", c)
    \/ IssueInsert(p)
    \/ IssueUpdate(p)
    \/ \E c \in Codes : VerifyRead(p, "verify_reset_otp", "+911", c)
    \/ VerifyCheck(p)
    \/ VerifyExpire(p)
    \/ VerifyMark(p)
    \/ VerifyAttempt(p)
    \/ TokenResolve(p)
    \/ TokenInsert(p)

NextToken ==
    \/ \E p \in Procs : TokenStep(p)
    \/ \E p \in Procs : SmsStep(p)
    \/ Tick(TickSeconds)

SpecToken == InitToken /\ [][NextToken]_vars

(***************************************************************************)
(* Signup next to the OTP engine: send_otp, the two verify routes and the  *)
(* two signup routes, for a phone that verified a code a minute ago.       *)
(***************************************************************************)
\* a code issued to "+911" a minute ago and verified since
OlderVerifiedRow ==
    [NewOtpRow(1, "+911", 5678, -60, 0, "send_otp")
        EXCEPT !.status = "VERIFIED", !.sent_via = "devA", !.verified_at = -30]

\* a second code, issued to "+911" just now
NewerSentRow ==
    [NewOtpRow(2, "+911", 1234, 0, 0, "send_otp")
        EXCEPT !.status = "SENT", !.sent_via = "devA"]

InitSignup ==
    /\ InitCommon
    /\ faults = 0
    /\ accounts = <<>>
    /\ otps \in {<<OlderVerifiedRow>>, <<OlderVerifiedRow, NewerSentRow>>}
    /\ tokens = <<>>
    /\ InitDevices(Len(otps))

SignupStep(p) ==
    \/ \E ph \in Phones : \E c \in Codes : IssueStart(p, "send_otp", ph, c)
    \/ IssueInsert(p)
    \/ IssueUpdate(p)
    \/ \E op \in VerifyOps : \E ph \in Phones : \E c \in Codes : VerifyRead(p, op, ph, c)
    \/ VerifyCheck(p)
    \/ VerifyExpire(p)
    \/ VerifyMark(p)
    \/ VerifyAttempt(p)
    \/ TokenResolve(p)
    \/ TokenInsert(p)
    \/ \E kind \in {"user", "vendor"} : \E ph \in Phones \cup {""} :
            SignupCheck(p, kind, ph, "pw1")
    \/ SignupInsert(p)

NextSignup ==
    \/ \E p \in Procs : SignupStep(p)
    \/ \E p \in Procs : SmsStep(p)
    \/ Tick(TickSeconds)

SpecSignup == InitSignup /\ [][NextSignup]_vars

(***************************************************************************)
(* profile_routes.normalize_phone.  A Python string is the sequence of its *)
(* characters; None and "" are both <<>> (`not phone` holds of both).      *)
(***************************************************************************)
Digits == {"0", "1", "2", "3", "4", "5", "6", "7", "8", "9"}
Whitespace == {" ", "\t", "\n"}

\* str.strip(): leading and trailing whitespace goes
RECURSIVE LStrip(_)
LStrip(s) == IF s # <<>> /\ Head(s) \in Whitespace THEN LStrip(Tail(s)) ELSE s

RECURSIVE RStrip(_)
RStrip(s) ==
    IF s # <<>> /\ s[Len(s)] \in Whitespace
    THEN RStrip(SubSeq(s, 1, Len(s) - 1)) ELSE s

Strip(s) == RStrip(LStrip(s))

\* str.replace(c, "") for a single character c
Without(s, c) == SelectSeq(s, LAMBDA x : x # c)

\* str.startswith(pre)
StartsWith(s, pre) == Len(s) >= Len(pre) /\ SubSeq(s, 1, Len(pre)) = pre

\* str.isdigit(): non-empty and digits only (ASCII digits in this alphabet)
IsDigit(s) == s # <<>> /\ \A i \in DOMAIN s : s[i] \in Digits

\* ''.join(filter(str.isdigit, phone))
OnlyDigits(s) == SelectSeq(s, LAMBDA x : x \in Digits)

\* digits[:10], where digits[-10:] is meant
Last10_First(s) == SubSeq(s, 1, 10)

\* digits[-10:] of a string of at least ten characters
Last10(s) == SubSeq(s, Len(s) - 9, Len(s))

CountryCode == <<"+", "9", "1">>

\* lines 17-36
normalize_phone(phone) ==
    IF phone = <<>> THEN <<>>
    ELSE LET ph == Without(Without(Strip(phone), " "), "-")
             digits == OnlyDigits(ph)
         IN  IF StartsWith(ph, CountryCode) /\ Len(ph) = 13 THEN ph
             ELSE IF StartsWith(ph, <<"9", "1">>) /\ Len(ph) = 12 THEN <<"+">> \o ph
             ELSE IF Len(ph) = 10 /\ IsDigit(ph) THEN CountryCode \o ph
             ELSE IF StartsWith(ph, <<"+">>) /\ ~StartsWith(ph, CountryCode)
                  THEN IF Len(digits) >= 10 THEN CountryCode \o Last10(digits)
                       ELSE CountryCode \o digits
             ELSE IF Len(digits) >= 10 THEN CountryCode \o Last10(digits)
             ELSE CountryCode \o digits

(***************************************************************************)
(* normalize_phone on its own: every input below is normalized once, and   *)
(* the result once more.  The inputs are ten-digit numbers in the formats  *)
(* callers send, and strings that are no phone number at all.              *)
(***************************************************************************)
\* ten-digit numbers: the first two digits vary, so that a number may itself
\* begin with 91, 19, 0 ...
TenDigits ==
    {<<a, b, "7", "6", "5", "4", "3", "2", "1", "0">> : a, b \in {"9", "1", "0"}}

\* leading prefixes a caller may write before the ten digits
Prefixes ==
    {<<>>, <<"9", "1">>, <<"+", "9", "1">>, <<"0">>, <<"+">>, <<"+", "1">>,
     <<"+", "4", "4">>, <<"0", "0", "9", "1">>, <<"+", "9">>, <<"9">>,
     <<"+", "9", "1", "0">>}

\* n written in groups: "98765 43210", "987-654-3210"
Grouped(n, sep) == SubSeq(n, 1, 5) \o <<sep>> \o SubSeq(n, 6, 10)

Dashed(n) == SubSeq(n, 1, 3) \o <<"-">> \o SubSeq(n, 4, 6) \o <<"-">> \o SubSeq(n, 7, 10)

Writings(n) ==
    {pre \o n : pre \in Prefixes}
    \cup {pre \o <<" ">> \o Grouped(n, " ") : pre \in Prefixes}
    \cup {pre \o <<"-">> \o Dashed(n) : pre \in Prefixes \ {<<>>}}
    \cup {Dashed(n), <<" ">> \o n \o <<" ", "\n">>, <<"\t">> \o Grouped(n, "-")}

NotPhones ==
    {<<>>, <<" ">>, <<"1", "2", "3">>, <<"+", "1", "2">>, <<"+", "9", "1", "5">>,
     <<"a", "b", "c">>, <<"+", "9", "1", "a", "b", "c", "d", "e", "f", "g", "h", "i", "j">>,
     <<"9", "1", "a", "b", "c", "d", "e", "f", "g", "h", "i", "j">>,
     <<"(", "9", "8", "7", ")", "6", "5", "4", "3", "2", "1", "0">>,
     <<"9", "8", "7", "6", "5", "4", "3", "2", "1">>}

RawPhones == (UNION {Writings(n) : n \in TenDigits}) \cup NotPhones

PhoneLoc(raw) == [op |-> "normalize_phone", phone |-> raw, out |-> <<>>, again |-> <<>>]

InitPhone ==
    /\ now = 0
    /\ nreq = 0
    /\ faults = 0
    /\ otps = <<>>
    /\ tokens = <<>>
    /\ accounts = <<>>
    /\ smsdb = NoDevices
    /\ DEVICES = NoDevices
    /\ LAST_REFRESH = 0
    /\ otp_store = <<>>
    /\ resp = NoResp
    /\ overlap = [phone |-> {}, token |-> {}]
    /\ pc = [p \in Procs |-> IF p = 1 THEN "np_call" ELSE "idle"]
    /\ \E raw \in RawPhones :
            loc = [p \in Procs |-> IF p = 1 THEN PhoneLoc(raw) ELSE IdleLoc]

\* phone = normalize_phone(data.get("phone"))
NormalizePhone(p) ==
    /\ pc[p] = "np_call"
    /\ loc' = [loc EXCEPT ![p].out = normalize_phone(loc[p].phone)]
    /\ pc' = [pc EXCEPT ![p] = "np_again"]
    /\ UNCHANGED <<now, nreq, faults, otps, tokens, accounts, smsdb, DEVICES,
                   LAST_REFRESH, otp_store, resp, overlap>>

\* the normalized phone comes back in a later request and is normalized again
NormalizeAgain(p) ==
    /\ pc[p] = "np_again"
    /\ loc' = [loc EXCEPT ![p].again = normalize_phone(loc[p].out)]
    /\ pc' = [pc EXCEPT ![p] = "np_done"]
    /\ UNCHANGED <<now, nreq, faults, otps, tokens, accounts, smsdb, DEVICES,
                   LAST_REFRESH, otp_store, resp, overlap>>

NextPhone ==
    \/ \E p \in Procs : NormalizePhone(p)
    \/ \E p \in Procs : NormalizeAgain(p)

SpecPhone == InitPhone /\ [][NextPhone]_vars

(***************************************************************************)
(* profile_routes.py: the phone-change flow.  Codes live in the in-process *)
(* dict otp_store, keyed by the normalized phone; a record holds the hash, *)
(* the time it was made and, when made by send_otp_new / send_otp_new_user,*)
(* the vendor_id / user_id (0: the key is absent).  `by` is history: the   *)
(* handler that made the record.                                           *)
(***************************************************************************)
PROFILE_OTP_EXPIRE_MINUTES == 3

\* profile_routes.hash_otp: sha256(otp + phone + salt), taken as collision free
hash_otp(phone, otp) == <<otp, phone, OTP_HASH_SALT>>

NoRecord == [otp_hash |-> <<>>, timestamp |-> 0, vendor_id |-> 0, user_id |-> 0,
             by |-> ""]

CurrentSendOps == {"send_otp_current", "send_otp_current_user"}
NewSendOps == {"send_otp_new", "send_otp_new_user"}
CurrentVerifyOps == {"verify_current_otp", "verify_current_otp_user"}
NewVerifyOps == {"verify_new_phone", "verify_new_phone_user"}

\* lines 69, 99-103, 159, 189-193
NewRecord(op, phone, otp, t, id) ==
    [otp_hash |-> hash_otp(phone, otp), timestamp |-> t,
     vendor_id |-> IF op = "send_otp_new" THEN id ELSE 0,
     user_id |-> IF op = "send_otp_new_user" THEN id ELSE 0,
     by |-> op]

\* otp_store[k] = r
Put(store, k, r) == [x \in DOMAIN store \cup {k} |-> IF x = k THEN r ELSE store[x]]

\* del otp_store[k]
Del(store, k) == [x \in DOMAIN store \ {k} |-> store[x]]

\* a clock check that never fires
RecordExpired_Never(record, t) == FALSE

\* time.time() - record["timestamp"] > OTP_EXPIRE_MINUTES * 60
RecordExpired(record, t) == t - record.timestamp > PROFILE_OTP_EXPIRE_MINUTES * 60

\* the locals of a profile request: those of every request, and record
ProfileLoc == IdleLoc @@ [record |-> NoRecord]

\* update({"phone": new_phone}).eq("id", id) on table vendors / users
UpdatePhone(accts, kind, id, phone) ==
    [i \in DOMAIN accts |->
        IF accts[i].kind = kind /\ accts[i].id = id
        THEN [accts[i] EXCEPT !.phone = phone] ELSE accts[i]]

\* send_otp_current, send_otp_new and their _user twins, up to the call of
\* the sender: lines 61-71, 89-105, 151-161, 179-195
ProfileSend(p, op, raw, id, otp) ==
    /\ Idle(p)
    /\ nreq < MaxReqs
    /\ nreq' = nreq + 1
    /\ LET phone == normalize_phone(raw)
           r == [NoResp EXCEPT !.op = op, !.phone = phone]
       IN IF phone = <<>> \/ (op \in NewSendOps /\ id = 0)
          THEN /\ Finish(p, [r EXCEPT !.http = 400, !.result = "Missing"])
               /\ UNCHANGED <<otp_store, overlap>>
          ELSE /\ otp_store' = Put(otp_store, phone, NewRecord(op, phone, otp, now, id))
               /\ pc' = [pc EXCEPT ![p] = "sms_cand"]
               /\ loc' = [loc EXCEPT ![p] = [ProfileLoc EXCEPT !.op = op,
                            !.phone = phone, !.otp = otp, !.sub = nreq + 1,
                            !.acct = id, !.ret = "ps_reply"]]
               /\ NoteStart(p, phone)
               /\ UNCHANGED resp
    /\ UNCHANGED <<now, faults, otps, tokens, accounts, smsdb, DEVICES, LAST_REFRESH>>

\* lines 72, 106, 162, 196: the sender's result is not looked at
ProfileSendReply(p) ==
    /\ pc[p] = "ps_reply"
    /\ Finish(p, Reply(p, 200, "OtpSent", ""))
    /\ UNCHANGED <<now, nreq, faults, otps, tokens, accounts, smsdb, DEVICES,
                   LAST_REFRESH, otp_store, overlap>>

\* the four verify handlers up to record = otp_store.get(phone):
\* lines 74-81, 108-116, 164-171, 198-206
ProfileVerifyRead(p, op, raw, otp) ==
    /\ Idle(p)
    /\ nreq < MaxReqs
    /\ nreq' = nreq + 1
    /\ LET phone == normalize_phone(raw)
           r == [NoResp EXCEPT !.op = op, !.phone = phone]
       IN IF phone \notin DOMAIN otp_store
          THEN /\ Finish(p, [r EXCEPT !.http = 400, !.result = "NoOtp"])
               /\ UNCHANGED overlap
          ELSE /\ pc' = [pc EXCEPT ![p] = "pv_check"]
               /\ loc' = [loc EXCEPT ![p] = [ProfileLoc EXCEPT !.op = op,
                            !.phone = phone, !.otp = otp, !.sub = nreq + 1,
                            !.record = otp_store[phone]]]
               /\ NoteStart(p, phone)
               /\ UNCHANGED resp
    /\ UNCHANGED <<now, faults, otps, tokens, accounts, smsdb, DEVICES, LAST_REFRESH,
                   otp_store>>

\* the clock and the code: lines 82-87, 117-121, 172-177, 207-211.  del
\* raises KeyError, outside any try, when the key is gone meanwhile.
ProfileVerifyCheck(p) ==
    /\ pc[p] = "pv_check"
    /\ IF RecordExpired(loc[p].record, now)
       THEN IF loc[p].phone \in DOMAIN otp_store
            THEN /\ otp_store' = Del(otp_store, loc[p].phone)
                 /\ Finish(p, Reply(p, 400, "Expired", ""))
            ELSE /\ Finish(p, Reply(p, 500, "Unhandled", "KeyError"))
                 /\ UNCHANGED otp_store
       ELSE /\ UNCHANGED otp_store
            /\ IF hash_otp(loc[p].phone, loc[p].otp) # loc[p].record.otp_hash
               THEN Finish(p, Reply(p, 400, "InvalidOtp", ""))
               ELSE IF loc[p].op \in CurrentVerifyOps
               THEN Finish(p, Reply(p, 200, "OldVerified", ""))
               ELSE /\ pc' = [pc EXCEPT ![p] = "pv_update"]
                    /\ UNCHANGED <<loc, resp>>
    /\ UNCHANGED <<now, nreq, faults, otps, tokens, accounts, smsdb, DEVICES,
                   LAST_REFRESH, overlap>>

\* lines 122-125, 212-215: record["vendor_id"] (record["user_id"]) raises
\* KeyError inside the try when the record has no such key
ProfileUpdate(p) ==
    /\ pc[p] = "pv_update"
    /\ LET kind == IF loc[p].op = "verify_new_phone" THEN "vendor" ELSE "user"
           id == IF kind = "vendor" THEN loc[p].record.vendor_id
                 ELSE loc[p].record.user_id
       IN IF id = 0
          THEN /\ Finish(p, Reply(p, 500, "StoreError", "KeyError"))
               /\ UNCHANGED <<faults, accounts>>
          ELSE \E ok \in StoreOutcomes :
                /\ Spend(ok)
                /\ IF ok
                   THEN /\ accounts' = UpdatePhone(accounts, kind, id, loc[p].phone)
                        /\ pc' = [pc EXCEPT ![p] = "pv_delete"]
                        /\ UNCHANGED <<loc, resp>>
                   ELSE /\ Finish(p, Reply(p, 500, "StoreError", ""))
                        /\ UNCHANGED accounts
    /\ UNCHANGED <<now, nreq, otps, tokens, smsdb, DEVICES, LAST_REFRESH, otp_store,
                   overlap>>

\* lines 126-129, 216-219: del inside the try
ProfileDelete(p) ==
    /\ pc[p] = "pv_delete"
    /\ IF loc[p].phone \in DOMAIN otp_store
       THEN /\ otp_store' = Del(otp_store, loc[p].phone)
            /\ Finish(p, Reply(p, 200, "PhoneUpdated", ""))
       ELSE /\ Finish(p, Reply(p, 500, "StoreError", "KeyError"))
            /\ UNCHANGED otp_store
    /\ UNCHANGED <<now, nreq, faults, otps, tokens, accounts, smsdb, DEVICES,
                   LAST_REFRESH, overlap>>

(***************************************************************************)
(* The phone-change flow of a vendor and a user, the sender it calls and   *)
(* the clock.  The store may fail (MaxFaults times).                       *)
(***************************************************************************)
NewNumber == <<"9", "8", "7", "6", "5", "4", "3", "2", "1", "0">>

\* what a caller may send as phone: the number bare, the number in
\* canonical form with a space, nothing
ProfileRaws == {NewNumber, <<"+", "9", "1", " ">> \o NewNumber, <<>>}

ProfileAccounts ==
    <<Account(1, "vendor", <<"+", "9", "1", "1", "1", "1", "1", "1", "1", "1", "1", "1", "1">>,
              GeneratePasswordHash("pw1", 0)),
      Account(2, "user", <<"+", "9", "1", "2", "2", "2", "2", "2", "2", "2", "2", "2", "2">>,
              GeneratePasswordHash("pw1", 0))>>

\* the canonical form of NewNumber, the key of its record
NewPhone == <<"+", "9", "1">> \o NewNumber

\* otp_store is empty after import; or an earlier send_otp_new (for vendor 1)
\* or send_otp_new_user (for user 2) left a record for NewPhone, its SMS
\* delivered by devA
InitProfile ==
    /\ now = 0
    /\ nreq = 0
    /\ pc = [p \in Procs |-> "idle"]
    /\ loc = [p \in Procs |-> IdleLoc]
    /\ resp = NoResp
    /\ overlap = [phone |-> {}, token |-> {}]
    /\ faults = MaxFaults
    /\ accounts = ProfileAccounts
    /\ otps = <<>>
    /\ tokens = <<>>
    /\ otp_store \in {<<>>,
                       Put(<<>>, NewPhone, NewRecord("send_otp_new", NewPhone, 1234, 0, 1)),
                       Put(<<>>, NewPhone, NewRecord("send_otp_new_user", NewPhone, 1234, 0, 2))}
    /\ InitDevices(IF otp_store = <<>> THEN 0 ELSE 1)

ProfileStep(p) ==
    \/ \E op \in {"send_otp_current"} \cup NewSendOps : \E raw \in ProfileRaws :
       \E id \in {0, 1} : \E otp \in {1234} :
            ProfileSend(p, op, raw, id, otp)
    \/ ProfileSendReply(p)
    \/ \E op \in {"verify_current_otp"} \cup NewVerifyOps : \E raw \in ProfileRaws :
       \E otp \in Codes :
            ProfileVerifyRead(p, op, raw, otp)
    \/ ProfileVerifyCheck(p)
    \/ ProfileUpdate(p)
    \/ ProfileDelete(p)

NextProfile ==
    \/ \E p \in Procs : ProfileStep(p)
    \/ \E p \in Procs : SmsStep(p)
    \/ Tick(TickSeconds)

SpecProfile == InitProfile /\ [][NextProfile]_vars

(***************************************************************************)
(* Properties.                                                             *)
(***************************************************************************)
\* request p takes this step
Acts(p) == pc'[p] # pc[p] \/ loc'[p] # loc[p]

VerifyPcs == {"v_check", "v_expire", "v_mark", "v_attempt"}

\* the transitions of a row's status the data model allows
StatusStep(a, b) ==
    \/ a = b
    \/ a = "PENDING" /\ b \in {"SENT", "FAILED", "VERIFIED", "EXPIRED"}
    \/ a = "SENT" /\ b \in {"VERIFIED", "EXPIRED"}

\* C1: under any interleaving of issue and verify requests, every change of
\* an OTP row's status is one of PENDING->SENT, PENDING->FAILED,
\* {PENDING,SENT}->VERIFIED, {PENDING,SENT}->EXPIRED, and a VERIFIED or
\* EXPIRED row never changes status again.
C1_StatusMonotonic ==
    [][\A i \in DOMAIN otps : StatusStep(otps[i].status, otps'[i].status)]_vars

\* C2 as stated: whatever the interleaving, once a row is VERIFIED every
\* verify request that acts on it returns AlreadyFinalized and changes
\* nothing (so only one request ever returns Verified for it).
C2_VerifiedOnceAnyInterleaving ==
    [][\A p \in Procs :
        (pc[p] \in VerifyPcs /\ Acts(p) /\ otps[loc[p].row.id].status = "VERIFIED")
        => /\ pc'[p] = "done"
           /\ resp'.result = "AlreadyFinalized"
           /\ otps' = otps /\ tokens' = tokens]_vars

\* C2 (amended): when the requests for a phone run one after the other (none
\* starts while another one for that phone is running), a verify request
\* that acts on a row already VERIFIED returns AlreadyFinalized and changes
\* nothing; hence the VERIFIED write, and the Verified answer, happen once.
C2_VerifiedOnceSequential ==
    [][\A p \in Procs :
        (/\ pc[p] \in VerifyPcs /\ Acts(p)
         /\ loc[p].phone \notin overlap.phone
         /\ otps[loc[p].row.id].status = "VERIFIED")
        => /\ pc'[p] = "done"
           /\ resp'.result = "AlreadyFinalized" /\ resp'.info = "VERIFIED"
           /\ resp'.http = 400
           /\ otps' = otps /\ tokens' = tokens]_vars

\* C2 witness: a second verify, run after the one that verified, was refused
C2_Witness ==
    /\ resp.op \in VerifyOps
    /\ resp.result = "AlreadyFinalized" /\ resp.info = "VERIFIED"
    /\ resp.phone \notin overlap.phone
    /\ otps[resp.row].status = "VERIFIED"

CompletePcs == {"c_check", "c_acct", "c_pw", "c_used"}

\* C3 as stated: whatever the interleaving, a complete request that acts
\* on a token already used returns AlreadyUsed and changes neither a
\* password hash nor the token (so at most one request returns Ok).
C3_ConsumedOnceAnyInterleaving ==
    [][\A p \in Procs :
        (pc[p] \in CompletePcs /\ Acts(p) /\ tokens[loc[p].trow.id].used)
        => /\ pc'[p] = "done"
           /\ resp'.result = "AlreadyUsed"
           /\ accounts' = accounts /\ tokens' = tokens]_vars

\* C3 (amended): when the complete requests for a token run one after the
\* other, (a) one that acts on the token once it is used returns
\* AlreadyUsed (400) and changes no password hash and no token, (b) the
\* request that returns Ok is the one that turns used from false to true,
\* and (c) in any interleaving a complete that finds the token unused
\* after its expires_at returns Expired (400) and changes nothing.
C3_ConsumedOnceSequential ==
    [][\A p \in Procs :
        /\ (/\ pc[p] \in CompletePcs /\ Acts(p)
            /\ loc[p].token \notin overlap.token
            /\ tokens[loc[p].trow.id].used)
           => /\ pc'[p] = "done"
              /\ resp'.result = "AlreadyUsed" /\ resp'.http = 400
              /\ resp'.token = loc[p].token
              /\ accounts' = accounts /\ tokens' = tokens
        /\ (/\ pc[p] \in CompletePcs /\ Acts(p)
            /\ loc[p].token \notin overlap.token
            /\ pc'[p] = "done" /\ resp'.result = "Ok")
           => /\ ~tokens[loc[p].trow.id].used
              /\ tokens'[loc[p].trow.id].used
              /\ loc[p].trow.id \in accounts[loc[p].acct].pw_tokens
        /\ (/\ pc[p] = "c_check" /\ Acts(p)
            /\ ~loc[p].trow.used
            /\ now > loc[p].trow.expires_at)
           => /\ pc'[p] = "done"
              /\ resp'.result = "Expired" /\ resp'.http = 400
              /\ accounts' = accounts /\ tokens' = tokens]_vars

\* C3 witness: after a complete consumed the token, a later one was refused
C3_Witness ==
    /\ resp.op = "complete" /\ resp.result = "AlreadyUsed"
    /\ resp.token \notin overlap.token
    /\ \E i \in TokenRows(tokens, resp.token) :
            /\ tokens[i].used
            /\ \E a \in DOMAIN accounts : i \in accounts[a].pw_tokens

\* C4: a token is used only if a complete wrote a password hash under it;
\* used never goes back to false; and when the password write fails the
\* request ends with an error (500) and leaves every token as it was.
C4_UsedOnlyAfterPasswordWrite ==
    /\ [](\A i \in DOMAIN tokens :
            tokens[i].used => \E a \in DOMAIN accounts : i \in accounts[a].pw_tokens)
    /\ [][/\ \A i \in DOMAIN tokens : tokens[i].used => tokens'[i].used
          /\ \A p \in Procs :
                (pc[p] = "c_pw" /\ Acts(p) /\ accounts' = accounts)
                => /\ pc'[p] = "done"
                   /\ resp'.result = "StoreError" /\ resp'.http = 500
                   /\ tokens' = tokens]_vars

\* C4 witness: a complete wrote the hash, marked the token used, returned Ok
C4_Witness ==
    /\ resp.op = "complete" /\ resp.result = "Ok"
    /\ \E i \in TokenRows(tokens, resp.token) :
            /\ tokens[i].used
            /\ \E a \in DOMAIN accounts :
                    /\ i \in accounts[a].pw_tokens
                    /\ accounts[a].password_hash[1] = "pw2"

\* the devices of a candidate list
Listed(c) == {c[i] : i \in DOMAIN c}

\* C5 as stated: whatever the interleaving, the device a request is about
\* to post from is not offline in the store.
C5_NeverAttemptsOffline ==
    \A p \in Procs :
        pc[p] = "sms_post" => smsdb[loc[p].cands[loc[p].idx]].status # "offline"

\* C5 (amended): the devices a request attempts are those of the list
\* _get_candidates gave it, and every device of that list was active in the
\* cache when the list was built; when building the list refreshed the
\* cache (it was empty or older than REFRESH_TTL), every device of the list
\* was active in the store at that refresh.  A device that went offline
\* later (marked by another request, or edited externally before the cache
\* ages out) may still be attempted.
C5_CandidatesActiveWhenListed ==
    [][\A p \in Procs :
        /\ (pc[p] = "sms_cand" /\ pc'[p] = "sms_post")
           => /\ loc'[p].idx = 1 /\ loc'[p].cands # <<>>
              /\ \A d \in Listed(loc'[p].cands) :
                    /\ d \in DOMAIN DEVICES' /\ DEVICES'[d].status = "active"
                    /\ (DOMAIN DEVICES = {} \/ now - LAST_REFRESH > REFRESH_TTL)
                       => smsdb[d].status = "active"
        /\ (pc[p] \in SmsPcs \ {"sms_cand"} /\ pc'[p] \in SmsPcs)
           => /\ loc'[p].cands = loc[p].cands
              /\ loc'[p].idx \in {loc[p].idx, loc[p].idx + 1}
              /\ loc'[p].idx \in DOMAIN loc[p].cands]_vars

\* C5 witness: a request about to post holds the full list of a pool in
\* which the other device is offline, in the cache and in the store
C5_Witness ==
    \E p \in Procs : \E d \in HTTPSMS_DEVICES :
        /\ pc[p] = "sms_post" /\ loc[p].try_limit = <<>>
        /\ d \in DOMAIN DEVICES /\ DEVICES[d].status = "offline"
        /\ smsdb[d].status = "offline"
        /\ d \notin Listed(loc[p].cands)
        /\ \A e \in Listed(loc[p].cands) : DEVICES[e].status = "active"

\* the rows of tbl other than row i are those of old, and row i differs
\* from old[i] at most in the fields the caller accounts for
OnlyRow(old, tbl, i) ==
    /\ DOMAIN tbl = DOMAIN old
    /\ \A j \in DOMAIN old : j # i => tbl[j] = old[j]

\* C6: a verify that finds its row PENDING or SENT and the clock past the
\* row's expires_at writes EXPIRED to that row (and nothing else) and
\* returns Expired (400); a verify that reads the row as EXPIRED returns
\* AlreadyFinalized "OTP already EXPIRED" and writes nothing; and while the
\* requests for the phone run one after the other, every verify acting on
\* a row that is EXPIRED gets that answer, never Expired or Verified.
C6_ExpiredThenFinal ==
    [][\A p \in Procs :
        /\ (/\ pc[p] = "v_check" /\ Acts(p)
            /\ loc[p].row.status \in {"PENDING", "SENT"}
            /\ now > loc[p].row.expires_at)
           => pc'[p] = "v_expire" /\ otps' = otps
        /\ (pc[p] = "v_expire" /\ Acts(p) /\ faults' = faults)
           => /\ pc'[p] = "done"
              /\ resp'.result = "Expired" /\ resp'.http = 400
              /\ otps' = [otps EXCEPT ![loc[p].row.id].status = "EXPIRED"]
              /\ tokens' = tokens
        /\ (pc[p] = "v_check" /\ Acts(p) /\ loc[p].row.status = "EXPIRED")
           => /\ pc'[p] = "done"
              /\ resp'.result = "AlreadyFinalized" /\ resp'.info = "EXPIRED"
              /\ resp'.http = 400
              /\ otps' = otps /\ tokens' = tokens
        /\ (/\ pc[p] \in VerifyPcs /\ Acts(p)
            /\ loc[p].phone \notin overlap.phone
            /\ otps[loc[p].row.id].status = "EXPIRED")
           => /\ pc[p] = "v_check" /\ pc'[p] = "done"
              /\ resp'.result = "AlreadyFinalized" /\ resp'.info = "EXPIRED"
              /\ otps' = otps /\ tokens' = tokens]_vars

\* C6 witness: a verify with the matching code, made after a late verify
\* expired the row, was answered "already EXPIRED"
C6_Witness ==
    /\ resp.op \in VerifyOps
    /\ resp.result = "AlreadyFinalized" /\ resp.info = "EXPIRED"
    /\ resp.phone \notin overlap.phone
    /\ otps[resp.row].status = "EXPIRED"
    /\ now > otps[resp.row].expires_at

\* C7 as stated: whatever the interleaving, the wrong-code branch leaves
\* the row's attempts one above what the table held (so n wrong-code
\* verifies leave attempts = n).
C7_AttemptsCountAnyInterleaving ==
    [][\A p \in Procs :
        (pc[p] = "v_attempt" /\ Acts(p) /\ faults' = faults)
        => otps'[loc[p].row.id].attempts = otps[loc[p].row.id].attempts + 1]_vars

\* C7 (amended): a verify whose code does not match a row it read as not
\* VERIFIED, not EXPIRED and not past expires_at takes the wrong-code
\* branch; that branch returns InvalidCode (400) and, when the store
\* accepts the write, sets the row's attempts to the value the request
\* read plus one, leaving status, every other field, every other row and
\* the tokens unchanged (a failed write is swallowed and changes nothing).
\* While the requests for the phone run one after the other this is the
\* table's value plus one; concurrent wrong-code verifies that read the
\* same value count as one.
C7_AttemptsFromRead ==
    [][\A p \in Procs :
        /\ (/\ pc[p] = "v_check" /\ Acts(p)
            /\ loc[p].row.status \notin {"VERIFIED", "EXPIRED"}
            /\ ~(now > loc[p].row.expires_at)
            /\ loc[p].row.otp_hash # HashOtp(loc[p].otp))
           => pc'[p] = "v_attempt" /\ otps' = otps
        /\ (pc[p] = "v_attempt" /\ Acts(p))
           => /\ pc'[p] = "done"
              /\ resp'.result = "InvalidCode" /\ resp'.http = 400
              /\ tokens' = tokens
              /\ otps' = IF faults' = faults
                         THEN [otps EXCEPT ![loc[p].row.id].attempts =
                                              loc[p].row.attempts + 1]
                         ELSE otps
              /\ (faults' = faults /\ loc[p].phone \notin overlap.phone)
                 => otps'[loc[p].row.id].attempts = otps[loc[p].row.id].attempts + 1]_vars

\* C7 witness: two wrong-code verifies, one after the other, left attempts = 2
C7_Witness ==
    /\ resp.op \in VerifyOps /\ resp.result = "InvalidCode"
    /\ resp.phone \notin overlap.phone
    /\ otps[resp.row].attempts = 2
    /\ otps[resp.row].status = "SENT"

\* a request starts in this step and returns at once
ReturnsAtOnce ==
    /\ nreq' = nreq + 1
    /\ \A p \in Procs : pc'[p] # pc[p] => pc'[p] = "done"

\* row r is the most recently created row of its phone in tbl
MostRecent(tbl, r) ==
    /\ r.id \in DOMAIN tbl /\ tbl[r.id] = r
    /\ \A j \in DOMAIN tbl :
            (tbl[j].phone = r.phone /\ j # r.id)
            => \/ tbl[j].created_at < r.created_at
               \/ tbl[j].created_at = r.created_at /\ tbl[j].created_sub < r.created_sub

C10_InsertedRowUpdatedAnyInterleaving ==
    [][\A p \in Procs :
        (pc[p] = "iss_update" /\ Acts(p) /\ faults' = faults)
        => IF loc[p].send.success
           THEN /\ otps'[loc[p].ins].status = "SENT"
                /\ otps'[loc[p].ins].sent_via = loc[p].send.device
           ELSE otps'[loc[p].ins].status = "FAILED"]_vars

\* C10 (amended): an issue request that reaches its status update (its
\* insert succeeded and the sender returned a result) answers 200 exactly
\* when delivery succeeded and 502 otherwise; the update (best-effort: a failed
\* write is swallowed) goes to the row that is the phone's most recent one
\* when the update runs, setting it SENT with sent_via the delivering
\* device, or FAILED, and touching nothing else.  That row is the row the
\* request inserted while the requests for the phone run one after the
\* other; when two issue requests for the phone overlap, both updates can
\* land on the newer row and the older one stays PENDING.
C10_IssueUpdatesLatestRow ==
    [][\A p \in Procs :
        (pc[p] = "iss_update" /\ Acts(p))
        => /\ pc'[p] = "done" /\ tokens' = tokens
           /\ resp'.http = IF loc[p].send.success THEN 200 ELSE 502
           /\ resp'.result = IF loc[p].send.success THEN "Sent" ELSE "DeliveryFailed"
           /\ \E i \in DOMAIN otps :
                /\ MostRecent(otps, otps[i]) /\ otps[i].phone = loc[p].phone
                /\ otps' = IF faults' # faults THEN otps
                           ELSE IF loc[p].send.success
                           THEN [otps EXCEPT ![i].status = "SENT",
                                             ![i].sent_via = loc[p].send.device]
                           ELSE [otps EXCEPT ![i].status = "FAILED"]
                /\ loc[p].phone \notin overlap.phone => i = loc[p].ins]_vars

\* C10 witness: a second code for the phone was issued and delivered; the
\* new row is SENT through the device the answer names
C10_Witness ==
    /\ resp.op \in IssueOps /\ resp.result = "Sent" /\ resp.http = 200
    /\ resp.phone \notin overlap.phone
    /\ resp.row = 2
    /\ otps[2].status = "SENT" /\ otps[2].sent_via = resp.info
    /\ otps[1].phone = otps[2].phone

\* the rows of old whose content differs in tbl
Modified(old, tbl) == {i \in DOMAIN old : tbl[i] # old[i]}

\* C8 as stated: signup goes on to create the account only when the
\* phone's most recently created row is a VERIFIED one, a verify reads the
\* most recently created row, and no step modifies a row that is not the
\* most recently created one of its phone.
C8_OnlyMostRecentRowCounts ==
    [][/\ \A p \in Procs :
            /\ (pc[p] # "su_insert" /\ pc'[p] = "su_insert")
               => MostRecent(otps, loc'[p].row) /\ loc'[p].row.status = "VERIFIED"
            /\ (pc[p] # "v_check" /\ pc'[p] = "v_check")
               => MostRecent(otps, loc'[p].row)
       /\ \A i \in Modified(otps, otps') : MostRecent(otps, otps[i])]_vars

\* C8 (amended): verify-otp and password-reset/verify read the phone's most
\* recently created row and write to no row but the one they read; the
\* signup check is decided by the most recently created row among the
\* phone's VERIFIED rows, so an older VERIFIED row still admits signup
\* after a newer code was issued, and it answers "phone not verified"
\* only when the phone has no VERIFIED row; signup writes no code row.
\* While the requests for a phone run one after the other, every row that
\* is modified is the most recently created row of its phone; a verify
\* that read its row before a newer one was inserted still writes the
\* older row.
C8_LookupRows ==
    [][/\ \A p \in Procs :
            /\ (pc[p] # "v_check" /\ pc'[p] = "v_check")
               => /\ MostRecent(otps, loc'[p].row)
                  /\ loc'[p].row.phone = loc'[p].phone
                  /\ otps' = otps
            /\ (pc[p] \in VerifyPcs /\ Acts(p))
               => OnlyRow(otps, otps', loc[p].row.id)
            /\ (pc[p] # "su_insert" /\ pc'[p] = "su_insert")
               => /\ loc'[p].row.id \in DOMAIN otps
                  /\ otps[loc'[p].row.id] = loc'[p].row
                  /\ loc'[p].row.phone = loc'[p].phone
                  /\ loc'[p].row.status = "VERIFIED"
                  /\ \A j \in DOMAIN otps :
                        (/\ j # loc'[p].row.id
                         /\ otps[j].phone = loc'[p].phone
                         /\ otps[j].status = "VERIFIED")
                        => \/ otps[j].created_at < loc'[p].row.created_at
                           \/ /\ otps[j].created_at = loc'[p].row.created_at
                              /\ otps[j].created_sub < loc'[p].row.created_sub
                  /\ otps' = otps
            /\ (pc[p] = "su_insert" /\ Acts(p)) => otps' = otps
       /\ (ReturnsAtOnce /\ resp'.op = "signup" /\ resp'.phone # "")
          => /\ resp'.result = "PhoneNotVerified"
             /\ \A i \in DOMAIN otps :
                    ~(otps[i].phone = resp'.phone /\ otps[i].status = "VERIFIED")
             /\ otps' = otps /\ accounts' = accounts
       /\ \A i \in Modified(otps, otps') :
            otps[i].phone \notin overlap.phone => MostRecent(otps, otps[i])]_vars

\* C8 witness: an account was registered on the strength of an older
\* VERIFIED row while the phone's most recent row is a newer, unverified one
C8_Witness ==
    /\ resp.op = "signup" /\ resp.result = "Registered" /\ resp.http = 201
    /\ otps[resp.row].status = "VERIFIED" /\ otps[resp.row].phone = resp.phone
    /\ \E j \in DOMAIN otps :
            /\ otps[j].phone = resp.phone
            /\ otps[j].created_at > otps[resp.row].created_at
            /\ otps[j].status # "VERIFIED"
    /\ \E a \in DOMAIN accounts : accounts[a].phone = resp.phone

(***************************************************************************)
(* The issue handlers and the sender                                       *)
(***************************************************************************)
\* C11: when the insert of the PENDING row fails during issue (the request
\* leaves the insert step and no row was added), the request ends there
\* with 500, and that step changes neither the store's device rows nor the
\* cache; a request of an issue handler is inside the sender only with the
\* row it inserted for its phone, so no device is attempted for a failed
\* insert.
C11_InsertFailureSendsNothing ==
    [][\A p \in Procs :
        /\ (pc[p] = "iss_insert" /\ Acts(p) /\ Len(otps') = Len(otps))
           => /\ pc'[p] = "done"
              /\ resp'.http = 500 /\ resp'.op = loc[p].op /\ resp'.phone = loc[p].phone
              /\ otps' = otps /\ smsdb' = smsdb
              /\ DEVICES' = DEVICES /\ LAST_REFRESH' = LAST_REFRESH
        /\ (pc'[p] \in SmsPcs /\ loc'[p].op \in IssueOps)
           => /\ loc'[p].ins \in DOMAIN otps'
              /\ otps'[loc'[p].ins].phone = loc'[p].phone]_vars

\* C11 witness: an issue request was answered 500 for a failed insert; it
\* left no row and no device was used
C11_Witness ==
    /\ resp.op \in IssueOps /\ resp.http = 500 /\ resp.info = "DB insert failed"
    /\ otps = <<>>
    /\ \A d \in DOMAIN smsdb : smsdb[d].sent_today = 0
    /\ \E p \in Procs : pc[p] = "done"

\* the active devices of a cache, and those of them under their quota
ActiveIn(cache) == {d \in DOMAIN cache : cache[d].status = "active"}

BelowQuotaIn(cache) ==
    {d \in ActiveIn(cache) : cache[d].sent_today < cache[d].daily_quota}

\* C12: the list _get_candidates gives a send (seen whole when the caller
\* passes no try_limit) holds only devices that are active in the cache,
\* each once, in ascending order of sent_today; when some active device is
\* under its daily quota the list is exactly the active devices under
\* quota, otherwise it is the full active set; and the send answers "no
\* active devices available" exactly when the cache has no active device.
C12_CandidatesLeastUsedUnderQuota ==
    [][\A p \in Procs :
        /\ (pc[p] = "sms_cand" /\ pc'[p] = "sms_post" /\ loc[p].try_limit = <<>>)
           => LET c == loc'[p].cands
              IN /\ \A i, j \in DOMAIN c : i < j =>
                        /\ c[i] # c[j]
                        /\ DEVICES'[c[i]].sent_today <= DEVICES'[c[j]].sent_today
                 /\ Listed(c) = IF BelowQuotaIn(DEVICES') # {}
                                THEN BelowQuotaIn(DEVICES') ELSE ActiveIn(DEVICES')
                 /\ Listed(c) \subseteq ActiveIn(DEVICES')
        /\ (pc[p] = "sms_cand" /\ pc'[p] = "done" /\ loc[p].phone # "")
           => (resp'.info = "no active devices available"
                    <=> ActiveIn(DEVICES') = {})]_vars

\* C12 witness: a send holds two devices, the fresher first, while a third
\* active device at its quota was left out
C12_Witness ==
    \E p \in Procs : \E d \in DOMAIN DEVICES :
        /\ pc[p] = "sms_post" /\ loc[p].try_limit = <<>> /\ loc[p].idx = 1
        /\ Len(loc[p].cands) = 2
        /\ DEVICES[loc[p].cands[1]].sent_today < DEVICES[loc[p].cands[2]].sent_today
        /\ DEVICES[d].status = "active" /\ d \notin Listed(loc[p].cands)
        /\ DEVICES[d].sent_today >= DEVICES[d].daily_quota

\* the steps of _increment_sent_count_in_db, entered on a 200/201 answer
IncPcs == {"sms_inc_read", "sms_inc_write", "sms_inc_refresh"}

\* C13: a send attempts its candidates in list order, one position at a
\* time starting from the first; a transport success on the candidate at
\* position idx ends the loop there: the call moves to the bookkeeping of
\* that candidate and then returns success naming it, and no later
\* position is attempted; a success is returned only that way, so the
\* device named is the first whose transport call succeeded.  A failed
\* attempt changes no device's status in the store unless the answer
\* flagged the "from" field, and then only the status of the device just
\* attempted.
C13_FirstSuccessInOrder ==
    [][\A p \in Procs :
        /\ (pc[p] = "sms_cand" /\ pc'[p] = "sms_post") => loc'[p].idx = 1
        /\ (pc[p] \in SmsPcs \ {"sms_cand"} /\ Acts(p) /\ pc'[p] \in SmsPcs)
           => /\ loc'[p].cands = loc[p].cands
              /\ loc'[p].idx \in {loc[p].idx, loc[p].idx + 1}
              /\ loc'[p].idx = loc[p].idx + 1
                    => pc[p] \notin IncPcs /\ pc'[p] = "sms_post"
              /\ pc'[p] = "sms_post" => loc'[p].idx = loc[p].idx + 1
        /\ (pc[p] \in IncPcs /\ Acts(p))
           => \/ pc'[p] \in IncPcs /\ loc'[p].idx = loc[p].idx
              \/ /\ resp'.send.success
                 /\ resp'.send.device = loc[p].cands[loc[p].idx]
                 /\ pc'[p] \notin SmsPcs
        /\ (pc[p] \in SmsPcs /\ Acts(p) /\ pc'[p] = "done" /\ resp'.send.success)
           => pc[p] \in IncPcs
        /\ (pc[p] \in SmsPcs /\ Acts(p))
           => \A d \in DOMAIN smsdb :
                smsdb'[d].status # smsdb[d].status
                => /\ pc[p] = "sms_off_write"
                   /\ d = loc[p].cands[loc[p].idx]
                   /\ smsdb'[d].status = "offline"
        /\ (pc[p] = "sms_post" /\ Acts(p))
           => smsdb' = smsdb /\ DEVICES' = DEVICES]_vars

\* C13 witness: of three candidates the first two failed and the third
\* one's transport call succeeded; the first two are still active
C13_Witness ==
    \E p \in Procs :
        /\ pc[p] = "sms_inc_read" /\ Len(loc[p].cands) = 3 /\ loc[p].idx = 3
        /\ loc[p].last_error.device = loc[p].cands[2]
        /\ \A i \in 1 .. 2 : /\ loc[p].cands[i] \in DOMAIN smsdb
                              /\ smsdb[loc[p].cands[i]].status = "active"

\* C14 as stated: an answer that flags the "from" field always leaves the
\* device offline in the store.
C14_FlaggedDeviceAlwaysOffline ==
    [][\A p \in Procs :
        (pc[p] = "sms_off_write" /\ Acts(p))
        => /\ loc[p].cands[loc[p].idx] \in DOMAIN smsdb'
           /\ smsdb'[loc[p].cands[loc[p].idx]].status = "offline"]_vars

\* C14 (amended): an answer that flags the "from" field makes the sender
\* write status offline to the device's row at once; when the store holds
\* that row and accepts the write, the row is offline before the next
\* candidate is tried, the cache is then rebuilt (or emptied when the
\* rebuild fails), and, sends running one at a time and nobody else
\* editing the rows, no send that selects its candidates afterwards lists
\* a device whose row is offline, whether or not REFRESH_TTL has elapsed.
\* When the write fails the failure is swallowed: the rows stay as they
\* were and the device stays selectable.
C14_OfflineWhenStoreAccepts ==
    [][\A p \in Procs :
        /\ (pc[p] = "sms_post" /\ pc'[p] = "sms_off_write")
           => loc'[p] = loc[p] /\ smsdb' = smsdb
        /\ (pc[p] = "sms_off_write" /\ Acts(p))
           => LET d == loc[p].cands[loc[p].idx]
              IN IF faults' = faults /\ d \in DOMAIN smsdb
                 THEN /\ smsdb' = [smsdb EXCEPT ![d].status = "offline"]
                      /\ pc'[p] = "sms_off_refresh"
                 ELSE smsdb' = smsdb
        /\ (pc[p] = "sms_off_refresh" /\ Acts(p))
           => /\ smsdb' = smsdb
              /\ \A d \in DOMAIN DEVICES' :
                    d \in DOMAIN smsdb => DEVICES'[d].status = smsdb[d].status
        /\ (pc[p] = "sms_cand" /\ pc'[p] = "sms_post")
           => \A d \in Listed(loc'[p].cands) :
                    d \in DOMAIN smsdb => smsdb[d].status = "active"]_vars

\* C14 witness: the first send ended on a device whose answer flagged
\* "from"; the next send, started with no time passed, holds a list
\* without that device, which is offline in the store and in the cache
C14_Witness ==
    \E p \in Procs : \E d \in DOMAIN smsdb :
        /\ pc[p] = "sms_post" /\ nreq = 2 /\ now = 0
        /\ resp.send.last_error = [kind |-> "from_invalid", device |-> d]
        /\ smsdb[d].status = "offline"
        /\ d \in DOMAIN DEVICES /\ DEVICES[d].status = "offline"
        /\ d \notin Listed(loc[p].cands)

\* C15 as stated: every delivery goes through the whole bookkeeping: the
\* read is followed by the write, the write leaves the counter one above
\* what the store held, and the refresh leaves that count in the cache.
C15_EveryDeliveryIncrements ==
    [][\A p \in Procs :
        LET d == loc[p].cands[loc[p].idx]
        IN /\ (pc[p] = "sms_inc_read" /\ Acts(p)) => pc'[p] = "sms_inc_write"
           /\ (pc[p] = "sms_inc_write" /\ Acts(p))
              => smsdb'[d].sent_today = smsdb[d].sent_today + 1
           /\ (pc[p] = "sms_inc_refresh" /\ Acts(p))
              => /\ d \in DOMAIN DEVICES'
                 /\ DEVICES'[d].sent_today = smsdb[d].sent_today]_vars

\* C15 (amended): after a delivery via D the sender reads D's sent_today,
\* writes the value read plus one to D's row and rebuilds the cache, each
\* best-effort, and returns success naming D in every case: when the read
\* or the write fails nothing is written; when both are accepted D's row
\* holds the value read plus one (one more than before when no other
\* send's write of D fell between the read and the write) and no other
\* row or field changes; the rebuild leaves the cache equal to the store
\* or empty.  No other step of a send (selection, a failed attempt,
\* marking a device offline) changes any device's sent_today.
C15_IncrementBestEffort ==
    [][\A p \in Procs :
        LET d == loc[p].cands[loc[p].idx]
        IN /\ (pc[p] = "sms_post" /\ pc'[p] = "sms_inc_read")
              => loc'[p] = loc[p] /\ smsdb' = smsdb
           /\ (pc[p] = "sms_inc_read" /\ Acts(p))
              => /\ smsdb' = smsdb
                 /\ pc'[p] = "sms_inc_write" => loc'[p].cur = smsdb[d].sent_today
                 /\ faults' = faults => pc'[p] = "sms_inc_write"
           /\ (pc[p] = "sms_inc_write" /\ Acts(p))
              => IF faults' = faults
                 THEN /\ smsdb' = [smsdb EXCEPT ![d].sent_today = loc[p].cur + 1]
                      /\ loc[p].cur = smsdb[d].sent_today
                            => smsdb'[d].sent_today = smsdb[d].sent_today + 1
                      /\ pc'[p] = "sms_inc_refresh"
                 ELSE smsdb' = smsdb
           /\ (pc[p] = "sms_inc_refresh" /\ Acts(p))
              => /\ smsdb' = smsdb
                 /\ \A e \in DOMAIN DEVICES' :
                        DEVICES'[e].sent_today = smsdb[e].sent_today
           /\ (pc[p] \in IncPcs /\ Acts(p) /\ pc'[p] \notin IncPcs)
              => /\ pc'[p] = "done"
                 /\ resp'.send.success /\ resp'.send.device = d
           /\ (pc[p] \in SmsPcs \ {"sms_inc_write"} /\ Acts(p))
              => \A e \in DOMAIN smsdb :
                    smsdb'[e].sent_today = smsdb[e].sent_today]_vars

\* C15 witness: a send returned success naming a device whose counter in
\* the store and in the cache is one, up from zero
C15_Witness ==
    /\ resp.op = "sms" /\ resp.send.success
    /\ resp.send.device \in DOMAIN smsdb
    /\ smsdb[resp.send.device].sent_today = 1
    /\ resp.send.device \in DOMAIN DEVICES
    /\ DEVICES[resp.send.device].sent_today = 1

\* C16: send_sms_with_fallback never raises to its caller: whatever the
\* transport answers and whatever the store does during the bookkeeping,
\* the call ends by returning a result, success or a structured failure,
\* and when every candidate was tried without success the result carries
\* the error of the last candidate attempted.
C16_NeverRaises ==
    [][\A p \in Procs :
        (pc[p] \in SmsPcs /\ Acts(p) /\ pc'[p] \notin SmsPcs)
        => /\ resp'.op = "sms"
           /\ resp'.result \in {"Delivered", "Failed"}
           /\ resp'.result = "Delivered" <=> resp'.send.success
           /\ (resp'.send.error = "all devices failed" /\ loc[p].cands # <<>>)
              => resp'.send.last_error.device = loc[p].cands[Len(loc[p].cands)]]_vars

\* the candidates _get_candidates returns from a cache: how many
NumCandidates(cache) ==
    IF BelowQuotaIn(cache) # {} THEN Cardinality(BelowQuotaIn(cache))
    ELSE Cardinality(ActiveIn(cache))

\* C17: a send makes one transport call per position of its list, going
\* through the positions once, in order, and the list is no longer than
\* min(try_limit, number of candidates) for every try_limit supplied, and
\* no longer than the number of candidates when none is supplied.
C17_AttemptsBounded ==
    [][\A p \in Procs :
        /\ (pc[p] = "sms_cand" /\ pc'[p] = "sms_post")
           => /\ loc'[p].idx = 1
              /\ Len(loc'[p].cands) <=
                    IF loc[p].try_limit = <<>> THEN NumCandidates(DEVICES')
                    ELSE IF loc[p].try_limit[1] < NumCandidates(DEVICES')
                         THEN loc[p].try_limit[1] ELSE NumCandidates(DEVICES')
        /\ (pc[p] \in SmsPcs \ {"sms_cand"} /\ Acts(p) /\ pc'[p] = "sms_post")
           => /\ loc'[p].cands = loc[p].cands
              /\ loc'[p].idx = loc[p].idx + 1
              /\ loc'[p].idx <= Len(loc[p].cands)]_vars

\* the cache a successful refresh builds from the store's rows
RebuiltFrom(db) ==
    IF DOMAIN db = {}
    THEN [d \in HTTPSMS_DEVICES |->
            [phone |-> d, sent_today |-> 0,
             daily_quota |-> HTTPSMS_DEVICE_MAX_PER_DAY, status |-> "active"]]
    ELSE [d \in DOMAIN db |->
            [phone |-> d, sent_today |-> db[d].sent_today,
             daily_quota |-> db[d].daily_quota, status |-> db[d].status]]

\* C18: selection refreshes the cache exactly when it is empty or older
\* than REFRESH_TTL: a refresh that succeeds replaces the whole cache by
\* the store's rows and stamps LAST_REFRESH, one that fails leaves the
\* cache empty and LAST_REFRESH as it was, and a fresh cache is left
\* alone.  A send whose refresh at selection failed returns the failure
\* "no active devices available" in that same step, before any transport
\* call.  A refresh that fails during the bookkeeping also empties the
\* cache and the send goes on to its result.  Because an empty cache is
\* stale, the next selection refreshes again.
C18_RefreshWhenStaleOrEmpty ==
    [][\A p \in Procs :
        /\ (pc[p] = "sms_cand" /\ Acts(p) /\ loc[p].phone # "")
           => IF DOMAIN DEVICES = {} \/ now - LAST_REFRESH > REFRESH_TTL
              THEN IF faults' = faults
                   THEN DEVICES' = RebuiltFrom(smsdb) /\ LAST_REFRESH' = now
                   ELSE /\ DEVICES' = NoDevices /\ LAST_REFRESH' = LAST_REFRESH
                        /\ pc'[p] = "done"
                        /\ ~resp'.send.success
                        /\ resp'.send.error = "no active devices available"
              ELSE DEVICES' = DEVICES /\ LAST_REFRESH' = LAST_REFRESH
                   /\ faults' = faults
        /\ (pc[p] \in {"sms_inc_refresh", "sms_off_refresh"} /\ Acts(p))
           => /\ IF faults' = faults
                 THEN DEVICES' = RebuiltFrom(smsdb) /\ LAST_REFRESH' = now
                 ELSE DEVICES' = NoDevices /\ LAST_REFRESH' = LAST_REFRESH
              /\ pc'[p] \in {"sms_post", "done"}
              /\ pc'[p] = "done" => resp'.result \in {"Delivered", "Failed"}]_vars

\* C18 witness: a send was answered "no active devices available" although
\* the store has an active device: its refresh failed and left the cache
\* empty
C18_Witness ==
    /\ resp.op = "sms" /\ resp.send.error = "no active devices available"
    /\ DEVICES = NoDevices /\ faults < MaxFaults
    /\ \E d \in DOMAIN smsdb : smsdb[d].status = "active"
    /\ \E p \in Procs : pc[p] = "done"

(***************************************************************************)
(* Reset tokens                                                            *)
(***************************************************************************)
\* C19 as stated: whatever the interleaving, when a request creates a
\* token row or returns a token, the most recent code of its phone is
\* VERIFIED.
C19_TokenOnlyWhileCurrentVerified ==
    [][\A p \in Procs :
        (pc[p] = "v_tok_insert" /\ Acts(p))
        => \A i \in DOMAIN otps :
                (otps[i].phone = loc[p].phone /\ MostRecent(otps, otps[i]))
                => otps[i].status = "VERIFIED"]_vars

\* C19 (amended): a request builds, stores and returns a token only after
\* that same request wrote VERIFIED (with verified_at) to the code row it
\* read for its phone: a failed VERIFIED write ends the request without a
\* token, a token row is added and a token value answered only by the
\* last step of such a request, in every interleaving.  When the requests
\* for the phone run one after the other, that row is the phone's most
\* recent code and is still VERIFIED when the token is returned; an issue
\* for the same phone running at the same time may have inserted a newer
\* code or rewritten the row's status by then.
C19_TokenAfterOwnVerifiedWrite ==
    [][/\ \A p \in Procs :
            /\ (pc'[p] = "v_token" /\ Acts(p))
               => /\ pc[p] = "v_mark" /\ loc[p].op = "verify_reset_otp"
                  /\ loc'[p] = loc[p]
                  /\ otps'[loc[p].row.id].status = "VERIFIED"
                  /\ otps'[loc[p].row.id].verified_at = now
                  /\ otps'[loc[p].row.id].phone = loc[p].phone
            /\ (pc[p] = "v_mark" /\ Acts(p) /\ otps' = otps
                    /\ otps[loc[p].row.id].status # "VERIFIED")
               => pc'[p] = "done" /\ resp'.http = 500 /\ resp'.token = 0
                  /\ tokens' = tokens
            /\ (pc'[p] = "v_tok_insert" /\ Acts(p))
               => pc[p] = "v_token" /\ loc'[p].phone = loc[p].phone
                  /\ loc'[p].row = loc[p].row /\ loc'[p].token # 0
            /\ (pc[p] = "v_tok_insert" /\ Acts(p) /\ loc[p].phone \notin overlap.phone)
               => /\ otps[loc[p].row.id].status = "VERIFIED"
                  /\ otps[loc[p].row.id].phone = loc[p].phone
                  /\ MostRecent(otps, otps[loc[p].row.id])
       /\ tokens' # tokens
          => \E p \in Procs :
                /\ pc[p] = "v_tok_insert" /\ Acts(p)
                /\ tokens' = Append(tokens, [loc[p].trow EXCEPT !.id = Len(tokens) + 1])
                /\ loc[p].trow.token = loc[p].token
       /\ (resp' # resp /\ resp'.token # 0)
          => \E p \in Procs :
                /\ pc[p] = "v_tok_insert" /\ Acts(p)
                /\ resp'.token = loc[p].token /\ resp'.phone = loc[p].phone
                /\ resp'.http = 200]_vars

\* C19 witness: a reset verify answered with a token that is stored, and
\* the code row it verified is the phone's VERIFIED row
C19_Witness ==
    /\ resp.op = "verify_reset_otp" /\ resp.token # 0 /\ resp.http = 200
    /\ \E t \in DOMAIN tokens : tokens[t].token = resp.token
    /\ resp.row \in DOMAIN otps
    /\ otps[resp.row].status = "VERIFIED" /\ otps[resp.row].phone = resp.phone

\* C20: a token issued while the account could not be resolved (its
\* account_id is unset) has its account type unset too, and is never
\* consumed: no complete request presenting it answers Ok, marks it used
\* or changes an account's password hash.
C20_UnresolvedTokenNeverConsumed ==
    /\ \A t \in DOMAIN tokens :
            tokens[t].account_id = 0
            => /\ tokens[t].account_type = ""
               /\ ~tokens[t].used
               /\ \A a \in DOMAIN accounts : t \notin accounts[a].pw_tokens
    /\ ~(/\ resp.op = "complete" /\ resp.result = "Ok"
         /\ \E t \in DOMAIN tokens :
                tokens[t].token = resp.token /\ tokens[t].account_id = 0)

(***************************************************************************)
(* password-reset/complete                                                 *)
(***************************************************************************)
ListedRefusals ==
    {"InvalidToken", "AlreadyUsed", "Expired", "AccountNotFound", "PhoneMismatch"}

\* the accounts the lookup by phone finds: users first, then vendors
FoundByPhone(ph) ==
    IF \E a \in DOMAIN accounts : accounts[a].kind = "user" /\ accounts[a].phone = ph
    THEN {a \in DOMAIN accounts : accounts[a].kind = "user" /\ accounts[a].phone = ph}
    ELSE {a \in DOMAIN accounts : accounts[a].kind = "vendor" /\ accounts[a].phone = ph}

\* the order in which a complete request decides, on the token row it read
CompleteOrder ==
    /\ (ReturnsAtOnce /\ resp'.op = "complete" /\ resp'.phone # "")
       => \/ /\ resp'.result = "InvalidToken" /\ resp'.http = 400
             /\ \A i \in DOMAIN tokens : tokens[i].token # resp'.token
          \/ resp'.result = "StoreError" /\ resp'.http = 500 /\ faults' # faults
    /\ \A p \in Procs :
        /\ (pc[p] \notin CompletePcs /\ pc'[p] = "c_check")
           => /\ loc'[p].trow.id \in DOMAIN tokens
              /\ tokens[loc'[p].trow.id] = loc'[p].trow
              /\ loc'[p].trow.token = loc'[p].token
        /\ (pc[p] = "c_check" /\ Acts(p))
           => IF loc[p].trow.used
              THEN pc'[p] = "done" /\ resp'.result = "AlreadyUsed" /\ resp'.http = 400
              ELSE IF now > loc[p].trow.expires_at
              THEN pc'[p] = "done" /\ resp'.result = "Expired" /\ resp'.http = 400
              ELSE pc'[p] = "c_acct" /\ loc'[p] = loc[p]
        /\ (pc[p] = "c_acct" /\ Acts(p))
           => IF FoundByPhone(loc[p].phone) = {} \/ faults' # faults
              THEN pc'[p] = "done" /\ resp'.result = "AccountNotFound"
                   /\ resp'.http = 404
              ELSE IF \A a \in FoundByPhone(loc[p].phone) :
                        \/ loc[p].trow.account_type = "USER" /\ accounts[a].kind # "user"
                        \/ loc[p].trow.account_type = "VENDOR" /\ accounts[a].kind # "vendor"
              THEN pc'[p] = "done" /\ resp'.result = "PhoneMismatch" /\ resp'.http = 400
              ELSE pc'[p] = "c_pw" /\ loc'[p].acct \in FoundByPhone(loc[p].phone)
        /\ (pc[p] \in CompletePcs /\ Acts(p) /\ pc'[p] = "done" /\ resp'.result = "Ok")
           => pc[p] = "c_used" /\ resp'.http = 200

\* C21 as stated: the fixed decision order, and a request that ends with
\* any result other than Ok has written no password hash and left the
\* tokens as they were.
C21_NonOkChangesNothing ==
    [][/\ CompleteOrder
       /\ \A p \in Procs :
            (pc[p] \in CompletePcs /\ Acts(p) /\ pc'[p] = "done" /\ resp'.result # "Ok")
            => /\ tokens' = tokens
               /\ \A a \in DOMAIN accounts :
                    accounts'[a].password_hash # <<loc[p].new_password, loc[p].sub>>]_vars

\* C21 (amended): a complete request decides in the fixed order, on the
\* token row it read: InvalidToken when no row has the token; else
\* AlreadyUsed when the row is used; else Expired when now > expires_at;
\* else AccountNotFound when the lookup by phone finds nobody (or fails);
\* else PhoneMismatch when the token's account_type differs from the kind
\* found; else it writes.  A request that ends with one of these five
\* results has changed no token and no password hash.  A store failure
\* ends the request with 500: at the lookup of the token or at the
\* password write nothing was changed, at the used write the password
\* hash is already written and the token stays unused.
C21_DecisionOrderAndRefusals ==
    [][/\ CompleteOrder
       /\ \A p \in Procs :
            /\ (/\ pc[p] \in CompletePcs /\ Acts(p) /\ pc'[p] = "done"
                /\ resp'.result \in ListedRefusals)
               => /\ tokens' = tokens /\ accounts' = accounts
                  /\ \A a \in DOMAIN accounts :
                        accounts[a].password_hash # <<loc[p].new_password, loc[p].sub>>
            /\ (/\ pc[p] \in CompletePcs /\ Acts(p) /\ pc'[p] = "done"
                /\ resp'.result \notin ListedRefusals \cup {"Ok"})
               => /\ resp'.result = "StoreError" /\ resp'.http = 500
                  /\ faults' # faults
                  /\ tokens' = tokens /\ accounts' = accounts
                  /\ pc[p] \in {"c_pw", "c_used"}
                  /\ pc[p] = "c_pw"
                        => \A a \in DOMAIN accounts :
                            accounts[a].password_hash # <<loc[p].new_password, loc[p].sub>>
                  /\ pc[p] = "c_used"
                        => loc[p].trow.id \in accounts[loc[p].acct].pw_tokens
       /\ (ReturnsAtOnce /\ resp'.op = "complete")
          => tokens' = tokens /\ accounts' = accounts]_vars

\* C21 witness: a complete presenting a live user token with a vendor's
\* phone was refused PhoneMismatch; the token is still unused
C21_Witness ==
    /\ resp.op = "complete" /\ resp.result = "PhoneMismatch" /\ resp.http = 400
    /\ \E i \in DOMAIN tokens :
            /\ tokens[i].token = resp.token /\ ~tokens[i].used
            /\ now <= tokens[i].expires_at
            /\ tokens[i].account_type = "USER"
    /\ \E a \in DOMAIN accounts :
            accounts[a].phone = resp.phone /\ accounts[a].kind = "vendor"

(***************************************************************************)
(* signup                                                                  *)
(***************************************************************************)
\* C22: an account row is added only by a signup request, for the phone
\* of the request, and only after that request found a row of exactly that
\* phone with status VERIFIED in the store; a signup for a phone without
\* such a row answers 400 "Phone not verified" and adds nothing; no step
\* of a signup request changes the table of codes.
C22_SignupNeedsVerifiedRow ==
    [][/\ accounts' # accounts
          => \E p \in Procs :
                /\ pc[p] = "su_insert" /\ Acts(p)
                /\ Len(accounts') = Len(accounts) + 1
                /\ \A a \in DOMAIN accounts : accounts'[a] = accounts[a]
                /\ accounts'[Len(accounts')].phone = loc[p].phone
                /\ accounts'[Len(accounts')].kind = loc[p].kind
       /\ \A p \in Procs :
            /\ (pc[p] # "su_insert" /\ pc'[p] = "su_insert")
               => /\ \E i \in DOMAIN otps :
                        otps[i].phone = loc'[p].phone /\ otps[i].status = "VERIFIED"
                  /\ otps' = otps /\ accounts' = accounts
            /\ (pc[p] = "su_insert" /\ Acts(p)) => otps' = otps /\ pc'[p] = "done"
       /\ (ReturnsAtOnce /\ resp'.op = "signup" /\ resp'.phone # "")
          => /\ resp'.result = "PhoneNotVerified" /\ resp'.http = 400
             /\ \A i \in DOMAIN otps :
                    ~(otps[i].phone = resp'.phone /\ otps[i].status = "VERIFIED")
             /\ otps' = otps /\ accounts' = accounts]_vars

\* C22 witness: a vendor signup for a phone without any VERIFIED row was
\* answered 400 and nothing was inserted, while another phone has one
C22_Witness ==
    /\ resp.op = "signup" /\ resp.result = "PhoneNotVerified" /\ resp.http = 400
    /\ resp.info = "vendor" /\ accounts = <<>>
    /\ \A i \in DOMAIN otps : otps[i].phone = resp.phone => otps[i].status # "VERIFIED"
    /\ \E i \in DOMAIN otps : otps[i].phone # resp.phone /\ otps[i].status = "VERIFIED"

(***************************************************************************)
(* Bookkeeping writes of the OTP engine                                    *)
(***************************************************************************)
\* C23: when the store fails on a bookkeeping write of the OTP engine (the
\* SENT/FAILED update after delivery, the attempts increment, the EXPIRED
\* or VERIFIED write of a verify), the request goes on as if the write had
\* succeeded: issue answers 200 or 502 by the delivery, a wrong code
\* answers InvalidCode, a late code answers Expired, a matching code
\* answers Verified (or goes on to its token).
C23_BookkeepingFailureSwallowed ==
    [][\A p \in Procs :
        (Acts(p) /\ faults' # faults)
        => /\ pc[p] = "iss_update"
              => /\ pc'[p] = "done"
                 /\ resp'.http = IF loc[p].send.success THEN 200 ELSE 502
           /\ pc[p] = "v_attempt"
              => pc'[p] = "done" /\ resp'.result = "InvalidCode" /\ resp'.http = 400
           /\ pc[p] = "v_expire"
              => pc'[p] = "done" /\ resp'.result = "Expired" /\ resp'.http = 400
           /\ pc[p] = "v_mark"
              => IF loc[p].op = "verify_otp"
                 THEN pc'[p] = "done" /\ resp'.result = "Verified" /\ resp'.http = 200
                 ELSE pc'[p] = "v_token"]_vars

(***************************************************************************)
(* Phone normalization                                                     *)
(***************************************************************************)
\* what the caller wrote, spaces and dashes apart
Bare(raw) == SelectSeq(raw, LAMBDA c : c \notin {" ", "-"})

\* raw is a ten-digit number in an accepted format: spaces and dashes apart,
\* it is the ten digits, after a prefix that is digits, "+" or "+" and digits
Accepted(raw) ==
    /\ Len(Bare(raw)) >= 10
    /\ \A i \in 1 .. Len(Bare(raw)) :
            \/ Bare(raw)[i] \in Digits
            \/ i = 1 /\ Bare(raw)[i] = "+" /\ Len(Bare(raw)) >= 11

\* "+91" and the ten digits the caller wrote
Canonical(raw) ==
    <<"+", "9", "1">> \o SubSeq(Bare(raw), Len(Bare(raw)) - 9, Len(Bare(raw)))

IsCanonical(s) ==
    /\ Len(s) = 13
    /\ SubSeq(s, 1, 3) = <<"+", "9", "1">>
    /\ \A i \in 4 .. 13 : s[i] \in Digits

\* C24: a ten-digit number written in an accepted format (bare, with spaces
\* or dashes, after 91, after +91, after another prefix) is normalized to
\* "+91" and those ten digits; normalizing the result again changes nothing,
\* and a canonical input comes back as it is.
C24_CanonicalAndIdempotent ==
    \A p \in Procs :
        /\ pc[p] \in {"np_again", "np_done"} /\ Accepted(loc[p].phone)
            => /\ loc[p].out = Canonical(loc[p].phone)
               /\ IsCanonical(loc[p].out)
        /\ pc[p] = "np_done" /\ Accepted(loc[p].phone)
            => loc[p].again = loc[p].out
        /\ pc[p] \in {"np_again", "np_done"} /\ IsCanonical(loc[p].phone)
            => loc[p].out = loc[p].phone

\* "0 10765 43210" style: a trunk prefix and a space, normalized twice
C24_Witness ==
    \E p \in Procs :
        /\ pc[p] = "np_done"
        /\ Accepted(loc[p].phone)
        /\ Head(loc[p].phone) = "0"
        /\ Len(loc[p].phone) = 13
        /\ Bare(loc[p].phone) # loc[p].phone
        /\ loc[p].out = Canonical(loc[p].phone)
        /\ loc[p].again = loc[p].out

(***************************************************************************)
(* The lifetime of a reset token                                           *)
(***************************************************************************)
\* C25 as stated: a complete request that presents the token and the phone
\* of the successful verify response just returned, alone and within 15
\* minutes, returns Ok.
C25_ReturnedTokenWorks ==
    [][\A p \in Procs :
        (/\ Acts(p) /\ pc'[p] = "done" /\ resp'.op = "complete"
         /\ resp.op = "verify_reset_otp" /\ resp.http = 200
         /\ resp'.token = resp.token /\ resp'.phone = resp.phone
         /\ now' <= TOKEN_EXPIRE_MINUTES * 60
         /\ \A q \in Procs \ {p} : Idle(q))
        => resp'.result = "Ok"]_vars

\* the token row's account is the one account that holds phone ph
IssuedFor(trow, ph) ==
    /\ trow.account_id \in DOMAIN accounts
    /\ accounts[trow.account_id].phone = ph
    /\ trow.account_type = (IF accounts[trow.account_id].kind = "vendor"
                            THEN "VENDOR" ELSE "USER")
    /\ \A a \in DOMAIN accounts : accounts[a].phone = ph => a = trow.account_id

\* C25: a verify whose token insert succeeds stores an unused row that
\* expires 15 minutes after its clock read and returns its token; a complete
\* that presents a stored token is never told InvalidToken; with the row
\* unused and the clock not past expires_at it goes on to the account; with
\* the row resolved to the account of the phone presented and the lookup
\* succeeding it goes on to the write; each write that succeeds changes that
\* account's hash, then marks the token used and returns Ok.
C25_StoredTokenWorks ==
    [][\A p \in Procs : Acts(p) =>
        /\ pc[p] = "v_tok_insert" /\ faults' = faults
            => /\ resp'.http = 200 /\ resp'.info = "" /\ resp'.token = loc[p].token
               /\ Len(tokens') = Len(tokens) + 1
               /\ tokens'[Len(tokens')].token = resp'.token
               /\ ~tokens'[Len(tokens')].used
               /\ tokens'[Len(tokens')].expires_at
                    = tokens'[Len(tokens')].created_at + TOKEN_EXPIRE_MINUTES * 60
        /\ pc'[p] = "done" /\ resp'.op = "complete" /\ resp'.result = "InvalidToken"
            => \A i \in DOMAIN tokens : tokens[i].token # resp'.token
        /\ pc[p] = "c_check" /\ ~loc[p].trow.used /\ now <= loc[p].trow.expires_at
            => pc'[p] = "c_acct"
        /\ pc[p] = "c_acct" /\ faults' = faults /\ IssuedFor(loc[p].trow, loc[p].phone)
            => pc'[p] = "c_pw" /\ loc'[p].acct = loc[p].trow.account_id
        /\ pc[p] = "c_pw" /\ faults' = faults
            => /\ pc'[p] = "c_used"
               /\ accounts'[loc[p].acct].password_hash = <<loc[p].new_password, loc[p].sub>>
               /\ accounts'[loc[p].acct].password_hash # accounts[loc[p].acct].password_hash
        /\ pc[p] = "c_used" /\ faults' = faults
            => /\ tokens'[loc[p].trow.id].used
               /\ resp'.http = 200 /\ resp'.result = "Ok"
               /\ resp'.token = loc[p].token]_vars

\* a token issued in this run, consumed eight minutes later with its phone
C25_Witness ==
    /\ resp.op = "complete" /\ resp.result = "Ok" /\ resp.phone = "+911"
    /\ now = LongTickSeconds
    /\ \E i \in DOMAIN tokens :
        /\ tokens[i].token = resp.token
        /\ tokens[i].created_at = 0
        /\ tokens[i].token # IssuedToken.token
        /\ tokens[i].used
        /\ IssuedFor(tokens[i], "+911")
        /\ accounts[tokens[i].account_id].password_hash # ResetAccounts[1].password_hash

(***************************************************************************)
(* The account a token may change                                          *)
(***************************************************************************)
\* C26: the account whose password hash a complete request writes is the
\* account recorded in the token it presents (same id, same type), so a
\* token issued for one phone never changes the password of an account
\* with another phone.  Checked on the tokens that record an account.
C26_WritesTheTokensAccount ==
    \A a \in DOMAIN accounts : \A t \in accounts[a].pw_tokens :
        tokens[t].account_id # 0
        => /\ tokens[t].account_id = accounts[a].id
           /\ tokens[t].account_type
                = (IF accounts[a].kind = "vendor" THEN "VENDOR" ELSE "USER")

(***************************************************************************)
(* verify and the rows whose delivery failed                               *)
(***************************************************************************)
\* C27: verify acts on the latest row of a phone only while its status is
\* SENT or PENDING: no step of a verify request turns a FAILED row into
\* VERIFIED or EXPIRED, whatever code is submitted.
C27_FailedRowStaysFailed ==
    [][\A p \in Procs : \A i \in DOMAIN otps :
        (/\ pc[p] \in VerifyPcs /\ Acts(p)
         /\ otps[i].status = "FAILED")
        => otps'[i].status \notin {"VERIFIED", "EXPIRED"}]_vars

(***************************************************************************)
(* Where VERIFIED rows come from                                           *)
(***************************************************************************)
\* C28: a row becomes VERIFIED only in the marking step of a verify request
\* that holds this row and a code whose salted hash is the row's; a request
\* comes to that step only from its check, made with the clock not past the
\* row's expires_at and with that code, and keeps row and code until it
\* writes; a row's hash and expires_at never change.  So every VERIFIED row
\* was verified by a matching code submitted no later than its expires_at,
\* and no issue request, wrong code or late verify produces one.
C28_VerifiedOnlyByTimelyMatch ==
    [][/\ \A i \in DOMAIN otps :
            /\ otps'[i].otp_hash = otps[i].otp_hash
            /\ otps'[i].expires_at = otps[i].expires_at
            /\ otps[i].status # "VERIFIED" /\ otps'[i].status = "VERIFIED"
                => \E p \in Procs :
                    /\ pc[p] = "v_mark" /\ Acts(p)
                    /\ loc[p].op \in VerifyOps
                    /\ loc[p].row.id = i
                    /\ <<loc[p].otp, OTP_HASH_SALT>> = otps[i].otp_hash
       /\ \A i \in DOMAIN otps' \ DOMAIN otps : otps'[i].status # "VERIFIED"
       /\ \A p \in Procs :
            /\ pc'[p] = "v_mark" /\ pc[p] # "v_mark"
                => /\ pc[p] = "v_check"
                   /\ loc'[p] = loc[p]
                   /\ loc[p].row.id \in DOMAIN otps
                   /\ now <= otps[loc[p].row.id].expires_at
                   /\ <<loc[p].otp, OTP_HASH_SALT>> = otps[loc[p].row.id].otp_hash
            /\ pc'[p] = "v_mark" /\ pc[p] = "v_mark" => loc'[p] = loc[p]]_vars

\* a code issued and verified in this run; the VERIFIED write came after the
\* row's expires_at, the check before it
C28_Witness ==
    \E i \in DOMAIN otps :
        /\ otps[i].status = "VERIFIED"
        /\ otps[i].created_sub > 0
        /\ otps[i].verified_at > otps[i].expires_at
        /\ resp.result = "Verified" /\ resp.row = i /\ resp.phone = otps[i].phone

(***************************************************************************)
(* The phone-change flow                                                   *)
(***************************************************************************)
ProfileVerifies ==
    {"verify_current_otp", "verify_current_otp_user", "verify_new_phone",
     "verify_new_phone_user"}

\* the record request p read is still the one otp_store holds for its phone
HoldsLatest(p) ==
    /\ loc[p].phone \in DOMAIN otp_store
    /\ otp_store[loc[p].phone] = loc[p].record

\* C29 as stated: whatever the interleaving, a verify request writes an
\* account's phone only while the record it read is the most recent record
\* of that phone (in particular not after another verify deleted it).
C29_WritesOnlyOnLatestRecord ==
    [][\A p \in Procs :
        (pc[p] = "pv_update" /\ pc'[p] = "pv_delete") => HoldsLatest(p)]_vars

\* C29 (amended): an account's phone changes only in the write of a
\* verify_new_phone (vendor) / verify_new_phone_user (user) request, to the
\* phone P of the request, from a record made by the matching send handler
\* for that account's id, with a matching code, read from otp_store under P
\* and found at most 3 minutes old at the request's clock read; when no
\* other request for P ran meanwhile that record is still the latest one at
\* the write, the success reply deletes it, and an expired record is
\* deleted by the request that finds it expired; a verify that finds no
\* record answers 'No OTP found' and changes nothing.
C29_PhoneChangeFlow ==
    [][/\ \A a \in DOMAIN accounts :
            accounts'[a].phone # accounts[a].phone
            => \E p \in Procs :
                /\ pc[p] = "pv_update" /\ Acts(p)
                /\ \/ /\ loc[p].op = "verify_new_phone"
                      /\ accounts[a].kind = "vendor"
                      /\ loc[p].record.by = "send_otp_new"
                      /\ loc[p].record.vendor_id = accounts[a].id
                   \/ /\ loc[p].op = "verify_new_phone_user"
                      /\ accounts[a].kind = "user"
                      /\ loc[p].record.by = "send_otp_new_user"
                      /\ loc[p].record.user_id = accounts[a].id
                /\ accounts'[a].phone = loc[p].phone
                /\ <<loc[p].otp, loc[p].phone, OTP_HASH_SALT>> = loc[p].record.otp_hash
                /\ loc[p].phone \notin overlap.phone => HoldsLatest(p)
       /\ \A p \in Procs :
            /\ pc'[p] = "pv_check" /\ pc[p] # "pv_check"
                => /\ loc'[p].phone \in DOMAIN otp_store
                   /\ loc'[p].record = otp_store[loc'[p].phone]
            /\ pc'[p] = "pv_update" /\ pc[p] # "pv_update"
                => /\ pc[p] = "pv_check" /\ loc'[p] = loc[p]
                   /\ now - loc[p].record.timestamp <= 3 * 60
                   /\ <<loc[p].otp, loc[p].phone, OTP_HASH_SALT>> = loc[p].record.otp_hash
            /\ pc[p] = "pv_update" /\ pc'[p] = "pv_update" => loc'[p] = loc[p]
            /\ pc[p] = "pv_update" /\ Acts(p) /\ pc'[p] # "pv_delete"
                => /\ resp'.http = 500
                   /\ accounts' = accounts /\ otp_store' = otp_store
            /\ pc[p] = "pv_delete" /\ Acts(p) /\ loc[p].phone \notin overlap.phone
                => /\ loc[p].phone \notin DOMAIN otp_store'
                   /\ resp'.http = 200 /\ resp'.result = "PhoneUpdated"
                   /\ resp'.phone = loc[p].phone
                   /\ accounts' = accounts
            /\ (/\ pc[p] = "pv_check" /\ Acts(p) /\ loc[p].phone \notin overlap.phone
                /\ now - loc[p].record.timestamp > 3 * 60)
                => /\ loc[p].phone \notin DOMAIN otp_store'
                   /\ resp'.http = 400 /\ resp'.result = "Expired"
                   /\ accounts' = accounts
       /\ (nreq' = nreq + 1 /\ loc' = loc /\ resp'.op \in ProfileVerifies)
            => /\ resp'.phone \notin DOMAIN otp_store
               /\ resp'.http = 400 /\ resp'.result = "NoOtp"
               /\ accounts' = accounts /\ otp_store' = otp_store]_vars

\* a vendor asked for a code for the new number and verified it two minutes
\* later: the vendor's phone is the new one and the record is gone
C29_Witness ==
    /\ resp.op = "verify_new_phone" /\ resp.result = "PhoneUpdated"
    /\ resp.phone = <<"+", "9", "1", "9", "8", "7", "6", "5", "4", "3", "2", "1", "0">>
    /\ accounts[1].phone = resp.phone
    /\ resp.phone \notin DOMAIN otp_store
    /\ resp.phone \notin overlap.phone
    /\ nreq = 2 /\ now = TickSeconds

(***************************************************************************)
(* Concurrent sends and a device's counter                                 *)
(***************************************************************************)
\* the sends that have not written a counter yet
BeforeWrite == {p \in Procs : pc[p] \in SmsPcs \ {"sms_inc_refresh"}}

\* all the devices' counters together
SentTotal ==
    smsdb["devA"].sent_today + smsdb["devB"].sent_today + smsdb["devC"].sent_today

====
